---- MODULE Spec2Model ----
(***************************************************************************)
(* The OpenAI realtime translator of piggo-translate: one upstream socket, *)
(* a FIFO queue of requests and a single active slot, driven by socket     *)
(* callbacks, one timer per active request and promise continuations.      *)
(*                                                                         *)
(* JavaScript runs one callback at a time.  Promise continuations are jobs *)
(* of the microtask queue and run in FIFO order before the next socket or  *)
(* timer callback.  Each operator below that takes a state record st and   *)
(* returns a state record is one function of the source, run to its first  *)
(* await.                                                                  *)
(***************************************************************************)
EXTENDS Integers, Sequences, FiniteSets, TLC

\* Bounds of the model.
MaxRequests == 3
MaxEvents == 2

ReqIds == 1..MaxRequests
\* every socket is created by ensureConnected on behalf of a newly active
\* request, so there are never more sockets than requests
SockIds == 1..MaxRequests

VARIABLES
  ws,                  \* let ws: the cached socket, 0 for null
  isWsOpen,            \* let isWsOpen
  connectPromise,      \* let connectPromise: the socket whose promise it is, 0 for null
  activeRequest,       \* let activeRequest: the request in the slot, 0 for null
  streamedText,        \* activeRequest.streamedText
  streamedAudioChunks, \* activeRequest.streamedAudioChunks
  receivedDoneEvent,   \* activeRequest.receivedDoneEvent
  queuedRequests,      \* const queuedRequests: records of id and modalities
  timers,              \* requests whose setTimeout is armed
  socketCount,         \* number of WebSocket objects constructed
  readyState,          \* WebSocket.readyState of each socket
  promiseState,        \* state of the connect promise created with each socket
  reactions,           \* continuations waiting on each connect promise
  microtasks,          \* the microtask queue
  listeners,           \* listener calls of the current event still to run
  checkpoint,          \* microtasks run before the next listener call
  submitted,           \* number of requests submitted so far
  modalities,          \* activeRequest.modalities: "text", or "audio" for audio and text
  settleCount,         \* invocations of each request's resolve/reject callbacks
  lastSettle,          \* the latest such invocation: request, result, on whose behalf
  createCount,         \* response.create messages sent carrying each request
  upstream,            \* responses the provider is producing on each socket
  eventCount,          \* provider events delivered so far
  sessionUpdates,      \* session.update messages sent on each socket
  lastDone,            \* the response.done behind the latest settle: socket, status
  deltaPopulated,      \* a text delta has put text into activeRequest.streamedText
  callers,             \* the API call waiting on each request's promise
  returned,            \* how the latest API call that got a text went on
  received,            \* what the provider has delivered to the request in the slot
  codec,               \* a call of decodeBase64PcmChunksToWavBlob: input and result
  server,              \* the API server: the calls it awaits, the messages it sent
  definitionCache,     \* the definition cache of the browser: entries, order, calls
  client               \* the browser client, its sockets and timers, its callbacks

vars == <<ws, isWsOpen, connectPromise, activeRequest, streamedText,
          streamedAudioChunks, receivedDoneEvent, queuedRequests, timers,
          socketCount, readyState, promiseState, reactions, microtasks,
          listeners, checkpoint, submitted, modalities, settleCount,
          lastSettle, createCount, upstream, eventCount, sessionUpdates,
          lastDone, deltaPopulated, callers, returned, received,
          codec, server, definitionCache, client>>

\* the variables of the translator
translatorVars ==
  <<ws, isWsOpen, connectPromise, activeRequest, streamedText,
    streamedAudioChunks, receivedDoneEvent, queuedRequests, timers,
    socketCount, readyState, promiseState, reactions, microtasks,
    listeners, checkpoint, submitted, modalities, settleCount,
    lastSettle, createCount, upstream, eventCount, sessionUpdates,
    lastDone, deltaPopulated, callers, returned, received>>

\* The latest settle did not come from a response.done event.
NoDone == [s |-> 0, status |-> "none"]

\* Nothing has been delivered to the request in the slot: text are its text
\* deltas joined in order of arrival, audio its audio deltas in order of
\* arrival, replaced tells that a text-done payload arrived when the text
\* buffer was blank.
NoneReceived == [text |-> <<>>, audio |-> <<>>, replaced |-> FALSE]

\* No API call is waiting on the request.
NoCaller == [api |-> "", word |-> <<>>]

\* new Blob([bytes], { type })
Blob(bytes, type) == [bytes |-> bytes, type |-> type]

\* decodeBase64PcmChunksToWavBlob has not been called: pcm are the bytes the
\* chunks were encoded from, blob is the Blob it returned.
NoCall == [pcm |-> <<>>, chunks |-> <<>>, blob |-> Blob(<<>>, ""), returned |-> FALSE]

\* The current state as one record, for the operators that model functions.
Cur ==
  [ws |-> ws, isWsOpen |-> isWsOpen, connectPromise |-> connectPromise,
   activeRequest |-> activeRequest, streamedText |-> streamedText,
   streamedAudioChunks |-> streamedAudioChunks,
   receivedDoneEvent |-> receivedDoneEvent,
   queuedRequests |-> queuedRequests, timers |-> timers,
   socketCount |-> socketCount, readyState |-> readyState,
   promiseState |-> promiseState, reactions |-> reactions,
   microtasks |-> microtasks, listeners |-> listeners,
   checkpoint |-> checkpoint, submitted |-> submitted,
   modalities |-> modalities,
   settleCount |-> settleCount, lastSettle |-> lastSettle,
   createCount |-> createCount, upstream |-> upstream,
   eventCount |-> eventCount, sessionUpdates |-> sessionUpdates,
   lastDone |-> lastDone, deltaPopulated |-> deltaPopulated,
   callers |-> callers, returned |-> returned, received |-> received]

\* The next state is the record n.
Becomes(n) ==
  /\ ws' = n.ws
  /\ isWsOpen' = n.isWsOpen
  /\ connectPromise' = n.connectPromise
  /\ activeRequest' = n.activeRequest
  /\ streamedText' = n.streamedText
  /\ streamedAudioChunks' = n.streamedAudioChunks
  /\ receivedDoneEvent' = n.receivedDoneEvent
  /\ queuedRequests' = n.queuedRequests
  /\ timers' = n.timers
  /\ socketCount' = n.socketCount
  /\ readyState' = n.readyState
  /\ promiseState' = n.promiseState
  /\ reactions' = n.reactions
  /\ microtasks' = n.microtasks
  /\ listeners' = n.listeners
  /\ checkpoint' = n.checkpoint
  /\ submitted' = n.submitted
  /\ modalities' = n.modalities
  /\ settleCount' = n.settleCount
  /\ lastSettle' = n.lastSettle
  /\ createCount' = n.createCount
  /\ upstream' = n.upstream
  /\ eventCount' = n.eventCount
  /\ sessionUpdates' = n.sessionUpdates
  /\ lastDone' = n.lastDone
  /\ deltaPopulated' = n.deltaPopulated
  /\ callers' = n.callers
  /\ returned' = n.returned
  /\ received' = n.received
  /\ codec' = codec
  /\ server' = server
  /\ definitionCache' = definitionCache
  /\ client' = client

\* The state of a translator that OpenAiTranslator() has just returned.
OpenAiTranslator ==
  /\ ws = 0
  /\ isWsOpen = FALSE
  /\ connectPromise = 0
  /\ activeRequest = 0
  /\ streamedText = <<>>
  /\ streamedAudioChunks = <<>>
  /\ receivedDoneEvent = FALSE
  /\ queuedRequests = <<>>
  /\ timers = {}
  /\ socketCount = 0
  /\ readyState = [s \in SockIds |-> "NONE"]
  /\ promiseState = [s \in SockIds |-> "none"]
  /\ reactions = [s \in SockIds |-> <<>>]
  /\ microtasks = <<>>
  /\ listeners = <<>>
  /\ checkpoint = TRUE
  /\ submitted = 0
  /\ modalities = ""
  /\ settleCount = [r \in ReqIds |-> 0]
  /\ lastSettle = [id |-> 0, result |-> "none", who |-> 0]
  /\ createCount = [r \in ReqIds |-> 0]
  /\ upstream = [s \in SockIds |-> <<>>]
  /\ eventCount = 0
  /\ sessionUpdates = [s \in SockIds |-> 0]
  /\ lastDone = NoDone
  /\ deltaPopulated = FALSE
  /\ callers = [r \in ReqIds |-> NoCaller]
  /\ returned = [id |-> 0, threw |-> FALSE, value |-> "none", definitions |-> <<>>]
  /\ received = NoneReceived

\* Bounds of the browser client: sockets created, reconnect timers set,
\* requests sent.
MaxSockets == 3

MaxTimers == 2

MaxSends == 2

SocketIds == 1..MaxSockets

\* latestRequest before a request is sent; the id 0 and the text <<>> stand
\* for the empty string
NoRequest == [id |-> 0, normalizedInputText |-> <<>>]

\* Client(options) as constructed, no socket created yet; with it the
\* sockets and timers of the browser, the requests each socket carried to
\* the server, the callbacks the latest step invoked, and the latest
\* translate request sent
Client ==
  [socket |-> 0, reconnectTimeoutId |-> 0, isDisposed |-> FALSE,
   requestCounter |-> 0, latestRequest |-> NoRequest,
   currentNormalizedInputText |-> <<>>, lastRequestedSignature |-> <<>>,
   latestDefinitionsRequestId |-> 0, lastDefinitionRequestSignature |-> <<>>,
   latestAudioRequestId |-> 0,
   readyState |-> [s \in SocketIds |-> "NONE"], socketCount |-> 0,
   closeEvents |-> {}, timers |-> {}, timerCount |-> 0,
   sent |-> [s \in SocketIds |-> {}], called |-> <<>>,
   lastTranslate |-> [id |-> 0, normalizedInputText |-> <<>>, cleared |-> FALSE]]

\* Cache(): no entry, and the calls made on it so far: their number and the
\* words they stored since the latest clear.
Emptied == [cache |-> <<>>, cacheOrder |-> <<>>, calls |-> 0, written |-> <<>>]

\* The server has handled no message.
Listening == [messages |-> 0, calls |-> <<>>, sent |-> <<>>]

Init ==
  /\ OpenAiTranslator
  /\ codec = NoCall
  /\ server = Listening
  /\ definitionCache = Emptied
  /\ client = Client

\* A job of the microtask queue: continuation t of the dispatch of request r,
\* about socket s, carrying error e.
Job(t, r, s, e) == [t |-> t, r |-> r, s |-> s, e |-> e]

\* The state in a set of one state.  An operator that models a function
\* names the state it starts in with "st \in {state}".
Now(states) == CHOOSE st \in states : TRUE

Enqueue(st, job) == [st EXCEPT !.microtasks = Append(@, job)]

----------------------------------------------------------------------------
\* const resetConnection = () => { ws = null; isWsOpen = false; connectPromise = null }
resetConnection(st) ==
  [st EXCEPT !.ws = 0, !.isWsOpen = FALSE, !.connectPromise = 0]

\* ensureConnected, called by the dispatch of request r, up to its first
\* await or its return.
ensureConnected(state, r) ==
  Now({(
  IF st.ws # 0 /\ st.isWsOpen /\ st.readyState[st.ws] = "OPEN"
  THEN \* return currentSocket: sendActiveRequest resumes with it in one tick
       Enqueue(st, Job("send", r, st.ws, "none"))
  ELSE IF st.connectPromise # 0
  THEN \* return connectPromise: the async function's promise adopts it
       Enqueue(st, Job("adopt", r, st.connectPromise, "none"))
  ELSE \* new WebSocket, listeners registered, await connectPromise
       LET n == st.socketCount + 1 IN
       [st EXCEPT !.socketCount = n,
                  !.readyState[n] = "CONNECTING",
                  !.promiseState[n] = "pending",
                  !.reactions[n] = <<Job("connected", r, n, "none")>>,
                  !.connectPromise = n]
  ) : st \in {state}})

\* sendActiveRequest up to its await of ensureConnected
sendActiveRequest(st, r) ==
  IF st.activeRequest = 0 THEN st ELSE ensureConnected(st, r)

\* processNextRequest taking the newest queued request instead of the oldest
processNextRequest_noTimer(state) ==
  Now({(
  IF st.activeRequest # 0 \/ Len(st.queuedRequests) = 0
  THEN st
  ELSE LET nextRequest == Head(st.queuedRequests) IN
       sendActiveRequest(
         [st EXCEPT !.queuedRequests = Tail(@),
                    !.activeRequest = nextRequest.id,
                    !.modalities = nextRequest.modalities,
                    !.streamedText = <<>>,
                    !.deltaPopulated = FALSE,
                    !.received = NoneReceived,
                    !.streamedAudioChunks = <<>>,
                    !.receivedDoneEvent = FALSE],
         nextRequest.id)
  ) : st \in {state}})

processNextRequest_lifo(state) ==
  Now({(
  IF st.activeRequest # 0 \/ Len(st.queuedRequests) = 0
  THEN st
  ELSE LET nextRequest == st.queuedRequests[Len(st.queuedRequests)] IN
       sendActiveRequest(
         [st EXCEPT !.queuedRequests = SubSeq(@, 1, Len(@) - 1),
                    !.activeRequest = nextRequest.id,
                    !.modalities = nextRequest.modalities,
                    !.timers = @ \cup {nextRequest.id},
                    !.streamedText = <<>>,
                    !.deltaPopulated = FALSE,
                    !.received = NoneReceived,
                    !.streamedAudioChunks = <<>>,
                    !.receivedDoneEvent = FALSE],
         nextRequest.id)
  ) : st \in {state}})

\* processNextRequest up to its await of sendActiveRequest
processNextRequest(state) ==
  Now({(
  IF st.activeRequest # 0 \/ Len(st.queuedRequests) = 0
  THEN st
  ELSE LET nextRequest == Head(st.queuedRequests) IN
       sendActiveRequest(
         [st EXCEPT !.queuedRequests = Tail(@),
                    !.activeRequest = nextRequest.id,
                    !.modalities = nextRequest.modalities,
                    !.timers = @ \cup {nextRequest.id},
                    !.streamedText = <<>>,
                    !.deltaPopulated = FALSE,
                    !.received = NoneReceived,
                    !.streamedAudioChunks = <<>>,
                    !.receivedDoneEvent = FALSE],
         nextRequest.id)
  ) : st \in {state}})

\* currentRequest.reject / resolveText / resolveAudio: the callbacks of
\* request r are invoked with result res, on behalf of request who.
Settle(st, r, res, who) ==
  [st EXCEPT !.settleCount[r] = @ + 1,
             !.lastSettle = [id |-> r, result |-> res, who |-> who],
             !.lastDone = NoDone,
             !.callers[r] = NoCaller]

\* A job of the microtask queue that resumes the API call of request r, whose
\* promise was resolved with text.
CallerJob(t, r, caller, text) ==
  [t |-> t, r |-> r, s |-> 0, e |-> "none", caller |-> caller, text |-> text]

\* currentRequest.resolveText?.(doneText): the promise created by
\* runOpenAiRealtimeRequest is resolved and that function resumes from its
\* await in one tick
resolveText(st, r, caller, doneText) ==
  Enqueue(st, CallerJob("resolved", r, caller, doneText))

\* activeRequest = null without clearTimeout(currentRequest.timeout)
Vacate_keepTimer(st, currentRequest) ==
  [st EXCEPT !.activeRequest = 0,
             !.modalities = "",
             !.streamedText = <<>>,
             !.deltaPopulated = FALSE,
             !.received = NoneReceived,
             !.streamedAudioChunks = <<>>,
             !.receivedDoneEvent = FALSE]

\* the timeout is cleared but the slot keeps the request
Vacate_keepSlot(st, currentRequest) ==
  [st EXCEPT !.timers = @ \ {currentRequest}]

\* activeRequest = null; clearTimeout(currentRequest.timeout).  The fields of
\* the dropped ActiveRequest object are gone with it.
Vacate(st, currentRequest) ==
  [st EXCEPT !.activeRequest = 0,
             !.modalities = "",
             !.timers = @ \ {currentRequest},
             !.streamedText = <<>>,
             !.deltaPopulated = FALSE,
             !.received = NoneReceived,
             !.streamedAudioChunks = <<>>,
             !.receivedDoneEvent = FALSE]

\* settleActiveError without its final processNextRequest()
settleActiveError_noNext(state, error, who) ==
  Now({(
  IF st.activeRequest = 0
  THEN st
  ELSE LET currentRequest == st.activeRequest IN
       Settle(Vacate(st, currentRequest), currentRequest, error, who)
  ) : st \in {state}})

\* settleActiveError(error), attempted on behalf of request who (0 when the
\* caller is a socket listener, which knows no request)
settleActiveError(state, error, who) ==
  Now({(
  IF st.activeRequest = 0
  THEN st
  ELSE LET currentRequest == st.activeRequest IN
       processNextRequest(
         Settle(Vacate(st, currentRequest), currentRequest, error, who))
  ) : st \in {state}})

----------------------------------------------------------------------------
\* Strings are sequences of characters; " " is the only whitespace.
IsBlank(str) == \A i \in 1..Len(str) : str[i] = " "

FirstInk(str) == CHOOSE i \in 1..Len(str) : str[i] # " " /\ \A j \in 1..(i - 1) : str[j] = " "

LastInk(str) == CHOOSE i \in 1..Len(str) : str[i] # " " /\ \A j \in (i + 1)..Len(str) : str[j] = " "

\* String.prototype.trim
Trim(str) == IF IsBlank(str) THEN <<>> ELSE SubSeq(str, FirstInk(str), LastInk(str))

\* Buffer.from(chunk, "base64").length: whitespace is skipped, four
\* characters carry three bytes
Base64Bytes(chunk) ==
  (Cardinality({i \in 1..Len(chunk) : chunk[i] # " "}) * 3) \div 4

RECURSIVE PcmBytes(_)
\* Buffer.concat(chunks.map(decode)).length
PcmBytes(chunks) ==
  IF Len(chunks) = 0 THEN 0 ELSE Base64Bytes(Head(chunks)) + PcmBytes(Tail(chunks))

\* decodeBase64PcmChunksToWavBlob(chunks).size: an empty Blob for no chunks,
\* otherwise the 44-byte header followed by the PCM bytes
WavBlobSize(chunks) == IF Len(chunks) = 0 THEN 0 ELSE 44 + PcmBytes(chunks)

\* settleActiveSuccess whose empty-text branch lacks processNextRequest()
settleActiveSuccess_noNext(state, who) ==
  Now({(
  IF st.activeRequest = 0
  THEN st
  ELSE LET currentRequest == st.activeRequest
           cleared == Vacate(st, currentRequest)
       IN
       IF st.modalities = "audio"
       THEN IF WavBlobSize(st.streamedAudioChunks) = 0
            THEN processNextRequest(
                   Settle(cleared, currentRequest, "empty audio", who))
            ELSE processNextRequest(
                   Settle(cleared, currentRequest, "audio", who))
       ELSE IF Trim(st.streamedText) = <<>>
            THEN Settle(cleared, currentRequest, "empty text", who)
            ELSE processNextRequest(
                   resolveText(Settle(cleared, currentRequest, "text", who),
                               currentRequest, st.callers[currentRequest],
                               Trim(st.streamedText)))
  ) : st \in {state}})

\* settleActiveSuccess that resolves a text request without testing !doneText
settleActiveSuccess_noEmptyCheck(state, who) ==
  Now({(
  IF st.activeRequest = 0
  THEN st
  ELSE LET currentRequest == st.activeRequest
           cleared == Vacate(st, currentRequest)
       IN
       IF st.modalities = "audio"
       THEN IF WavBlobSize(st.streamedAudioChunks) = 0
            THEN processNextRequest(
                   Settle(cleared, currentRequest, "empty audio", who))
            ELSE processNextRequest(
                   Settle(cleared, currentRequest, "audio", who))
       ELSE processNextRequest(
                   resolveText(Settle(cleared, currentRequest, "text", who),
                               currentRequest, st.callers[currentRequest],
                               Trim(st.streamedText)))
  ) : st \in {state}})

\* settleActiveSuccess(), reached from an event of the response to request who
settleActiveSuccess(state, who) ==
  Now({(
  IF st.activeRequest = 0
  THEN st
  ELSE LET currentRequest == st.activeRequest
           cleared == Vacate(st, currentRequest)
       IN
       IF st.modalities = "audio"
       THEN IF WavBlobSize(st.streamedAudioChunks) = 0
            THEN processNextRequest(
                   Settle(cleared, currentRequest, "empty audio", who))
            ELSE processNextRequest(
                   Settle(cleared, currentRequest, "audio", who))
       ELSE IF Trim(st.streamedText) = <<>>
            THEN processNextRequest(
                   Settle(cleared, currentRequest, "empty text", who))
            ELSE processNextRequest(
                   resolveText(Settle(cleared, currentRequest, "text", who),
                               currentRequest, st.callers[currentRequest],
                               Trim(st.streamedText)))
  ) : st \in {state}})

\* A provider event after JSON.parse.  type "" is a message that does not
\* parse; isString tells whether delta/text is a string; status "" is an
\* absent response.status; output is the joined output text of response.done.
Event(type, isString, data, status, output) ==
  [type |-> type, isString |-> isString, data |-> data, status |-> status,
   output |-> output]

\* getResponseTextFromDoneEvent
getResponseTextFromDoneEvent(ev) == Trim(ev.output)

\* `OpenAI response ended with status '${status}'`, the message of an event
\* without status_details
StatusError(status) ==
  CASE status = "incomplete" -> "ended with status 'incomplete'"
    [] status = "failed" -> "ended with status 'failed'"
    [] OTHER -> "ended with status"

\* onRealtimeMessage accepting an incomplete audio response without audio
onRealtimeMessage_anyIncomplete(state, ev, who) ==
  Now({(
  IF ev.type = "" \/ st.activeRequest = 0 THEN st
  ELSE IF ev.type = "error" THEN settleActiveError(st, "upstream error", who)
  ELSE IF ev.type = "response.output_text.delta" /\ ev.isString
       THEN [st EXCEPT !.streamedText = @ \o ev.data,
                       !.deltaPopulated = @ \/ ev.data # <<>>]
  ELSE IF /\ ev.type = "response.output_text.done"
          /\ ev.isString
          /\ Trim(st.streamedText) = <<>>
       THEN [st EXCEPT !.streamedText = ev.data]
  ELSE IF ev.type = "response.audio.delta" /\ ev.isString
       THEN [st EXCEPT !.streamedAudioChunks = Append(@, ev.data)]
  ELSE IF ev.type = "response.output_audio.delta" /\ ev.isString
       THEN [st EXCEPT !.streamedAudioChunks = Append(@, ev.data)]
  ELSE IF ev.type # "response.done" THEN st
  ELSE LET marked == [st EXCEPT !.receivedDoneEvent = TRUE]
           failedStatus == ev.status # "" /\ ev.status # "completed"
           isAudioRequest == st.modalities = "audio"
           hasAudioOutput == Len(st.streamedAudioChunks) > 0
           isAcceptableIncompleteAudioResponse ==
             ev.status = "incomplete" /\ isAudioRequest
           doneText == getResponseTextFromDoneEvent(ev)
       IN
       IF failedStatus /\ ~isAcceptableIncompleteAudioResponse
       THEN settleActiveError(marked, StatusError(ev.status), who)
       ELSE IF Trim(marked.streamedText) = <<>> /\ doneText # <<>>
            THEN settleActiveSuccess([marked EXCEPT !.streamedText = doneText], who)
            ELSE settleActiveSuccess(marked, who)
  ) : st \in {state}})

\* onRealtimeMessage that knows response.output_audio.delta only
onRealtimeMessage_oneAudioType(state, ev, who) ==
  Now({(
  IF ev.type = "" \/ st.activeRequest = 0 THEN st
  ELSE IF ev.type = "error" THEN settleActiveError(st, "upstream error", who)
  ELSE IF ev.type = "response.output_text.delta" /\ ev.isString
       THEN [st EXCEPT !.streamedText = @ \o ev.data,
                       !.deltaPopulated = @ \/ ev.data # <<>>]
  ELSE IF /\ ev.type = "response.output_text.done"
          /\ ev.isString
          /\ Trim(st.streamedText) = <<>>
       THEN [st EXCEPT !.streamedText = ev.data]
  ELSE IF ev.type = "response.output_audio.delta" /\ ev.isString
       THEN [st EXCEPT !.streamedAudioChunks = Append(@, ev.data)]
  ELSE IF ev.type # "response.done" THEN st
  ELSE LET marked == [st EXCEPT !.receivedDoneEvent = TRUE]
           failedStatus == ev.status # "" /\ ev.status # "completed"
           isAudioRequest == st.modalities = "audio"
           hasAudioOutput == Len(st.streamedAudioChunks) > 0
           isAcceptableIncompleteAudioResponse ==
             ev.status = "incomplete" /\ isAudioRequest /\ hasAudioOutput
           doneText == getResponseTextFromDoneEvent(ev)
       IN
       IF failedStatus /\ ~isAcceptableIncompleteAudioResponse
       THEN settleActiveError(marked, StatusError(ev.status), who)
       ELSE IF Trim(marked.streamedText) = <<>> /\ doneText # <<>>
            THEN settleActiveSuccess([marked EXCEPT !.streamedText = doneText], who)
            ELSE settleActiveSuccess(marked, who)
  ) : st \in {state}})

\* onRealtimeMessage that does not test !activeRequest
onRealtimeMessage_noSlotCheck(state, ev, who) ==
  Now({(
  IF ev.type = "" THEN st
  ELSE IF ev.type = "error" THEN settleActiveError(st, "upstream error", who)
  ELSE IF ev.type = "response.output_text.delta" /\ ev.isString
       THEN [st EXCEPT !.streamedText = @ \o ev.data,
                       !.deltaPopulated = @ \/ ev.data # <<>>]
  ELSE IF /\ ev.type = "response.output_text.done"
          /\ ev.isString
          /\ Trim(st.streamedText) = <<>>
       THEN [st EXCEPT !.streamedText = ev.data]
  ELSE IF ev.type = "response.audio.delta" /\ ev.isString
       THEN [st EXCEPT !.streamedAudioChunks = Append(@, ev.data)]
  ELSE IF ev.type = "response.output_audio.delta" /\ ev.isString
       THEN [st EXCEPT !.streamedAudioChunks = Append(@, ev.data)]
  ELSE IF ev.type # "response.done" THEN st
  ELSE LET marked == [st EXCEPT !.receivedDoneEvent = TRUE]
           failedStatus == ev.status # "" /\ ev.status # "completed"
           isAudioRequest == st.modalities = "audio"
           hasAudioOutput == Len(st.streamedAudioChunks) > 0
           isAcceptableIncompleteAudioResponse ==
             ev.status = "incomplete" /\ isAudioRequest /\ hasAudioOutput
           doneText == getResponseTextFromDoneEvent(ev)
       IN
       IF failedStatus /\ ~isAcceptableIncompleteAudioResponse
       THEN settleActiveError(marked, StatusError(ev.status), who)
       ELSE IF Trim(marked.streamedText) = <<>> /\ doneText # <<>>
            THEN settleActiveSuccess([marked EXCEPT !.streamedText = doneText], who)
            ELSE settleActiveSuccess(marked, who)
  ) : st \in {state}})

\* onRealtimeMessage(rawData), for an event the provider emitted for the
\* response.create that carried request who
onRealtimeMessage(state, ev, who) ==
  Now({(
  IF ev.type = "" \/ st.activeRequest = 0 THEN st
  ELSE IF ev.type = "error" THEN settleActiveError(st, "upstream error", who)
  ELSE IF ev.type = "response.output_text.delta" /\ ev.isString
       THEN [st EXCEPT !.streamedText = @ \o ev.data,
                       !.deltaPopulated = @ \/ ev.data # <<>>]
  ELSE IF /\ ev.type = "response.output_text.done"
          /\ ev.isString
          /\ Trim(st.streamedText) = <<>>
       THEN [st EXCEPT !.streamedText = ev.data]
  ELSE IF ev.type = "response.audio.delta" /\ ev.isString
       THEN [st EXCEPT !.streamedAudioChunks = Append(@, ev.data)]
  ELSE IF ev.type = "response.output_audio.delta" /\ ev.isString
       THEN [st EXCEPT !.streamedAudioChunks = Append(@, ev.data)]
  ELSE IF ev.type # "response.done" THEN st
  ELSE LET marked == [st EXCEPT !.receivedDoneEvent = TRUE]
           failedStatus == ev.status # "" /\ ev.status # "completed"
           isAudioRequest == st.modalities = "audio"
           hasAudioOutput == Len(st.streamedAudioChunks) > 0
           isAcceptableIncompleteAudioResponse ==
             ev.status = "incomplete" /\ isAudioRequest /\ hasAudioOutput
           doneText == getResponseTextFromDoneEvent(ev)
       IN
       IF failedStatus /\ ~isAcceptableIncompleteAudioResponse
       THEN settleActiveError(marked, StatusError(ev.status), who)
       ELSE IF Trim(marked.streamedText) = <<>> /\ doneText # <<>>
            THEN settleActiveSuccess([marked EXCEPT !.streamedText = doneText], who)
            ELSE settleActiveSuccess(marked, who)
  ) : st \in {state}})

----------------------------------------------------------------------------
\* resolve(nextSocket) / reject(error) of the connect promise of socket s:
\* a pending promise settles and its reactions become jobs, in the order
\* they were registered; a settled promise ignores the call.
SettlePromise(state, s, result, error) ==
  Now({(
  IF st.promiseState[s] # "pending"
  THEN st
  ELSE [st EXCEPT !.promiseState[s] = result,
                  !.reactions[s] = <<>>,
                  !.microtasks = @ \o [i \in 1..Len(st.reactions[s]) |->
                     Job(st.reactions[s][i].t, st.reactions[s][i].r, s, error)]]
  ) : st \in {state}})

\* onOpen without the session.update message
onOpen_noSessionUpdate(st, s) ==
  SettlePromise([st EXCEPT !.isWsOpen = TRUE, !.ws = s], s, "resolved", "none")

\* const onOpen
onOpen(st, s) ==
  SettlePromise([st EXCEPT !.isWsOpen = TRUE, !.ws = s,
                           !.sessionUpdates[s] = @ + 1], s, "resolved", "none")

\* onErrorBeforeOpen without resetConnection()
onErrorBeforeOpen_noReset(st, s) ==
  SettlePromise(st, s, "rejected", "connection failed")

\* const onErrorBeforeOpen
onErrorBeforeOpen(st, s) ==
  SettlePromise(resetConnection(st), s, "rejected", "connection failed")

\* nextSocket.addEventListener("error", ...)
onRuntimeError(st, s) == settleActiveError(st, "websocket error", 0)

\* the close listener without resetConnection()
onClose_noReset(state, s) ==
  Now({(
  LET closedBeforeCompletion == st.activeRequest # 0 /\ ~st.receivedDoneEvent
  IN IF closedBeforeCompletion
     THEN settleActiveError(st, "closed before completion", 0)
     ELSE st
  ) : st \in {state}})

\* nextSocket.addEventListener("close", ...)
onClose(state, s) ==
  Now({(
  LET closedBeforeCompletion == st.activeRequest # 0 /\ ~st.receivedDoneEvent
      reset == resetConnection(st)
  IN IF closedBeforeCompletion
     THEN settleActiveError(reset, "closed before completion", 0)
     ELSE reset
  ) : st \in {state}})

\* socket.send of the response.create message in sendActiveRequest: the
\* message carries the fields of activeRequest; only an open socket
\* transmits it
sendResponseCreate(st, s) ==
  [st EXCEPT !.createCount[st.activeRequest] = @ + 1,
             !.upstream[s] = IF st.readyState[s] = "OPEN"
                             THEN Append(@, st.activeRequest) ELSE @]

----------------------------------------------------------------------------
\* The text the provider returns.  Besides " " and "x" (a character that
\* starts no JSON value) a text holds "f", a markdown code fence (``` or
\* ```json), and JSON documents, each written as one character.

\* String.prototype.trimStart and trimEnd
TrimStart(str) == IF IsBlank(str) THEN <<>> ELSE SubSeq(str, FirstInk(str), Len(str))

TrimEnd(str) == IF IsBlank(str) THEN <<>> ELSE SubSeq(str, 1, LastInk(str))

\* a JSON value that is a string, and one that is not (absent, number, ...)
Str(str) == [isString |-> TRUE, str |-> str]

NotString == [isString |-> FALSE, str |-> <<>>]

\* a JSON value that is an array, and one that is not
Arr(items) == [isArray |-> TRUE, items |-> items]

NotArray == [isArray |-> FALSE, items |-> <<>>]

\* an element of an array: an object with the fields word, literal,
\* definition and punctuation
Item(word, literal, definition, punctuation) ==
  [isObject |-> TRUE, word |-> word, literal |-> literal,
   definition |-> definition, punctuation |-> punctuation]

\* the value of a JSON document: an array, an object with the fields
\* definition, definitions and pairs, or null
JsonArray(items) ==
  [isArray |-> TRUE, isObject |-> TRUE, items |-> items,
   definition |-> NotString, definitions |-> NotArray, pairs |-> NotArray]

JsonObject(definition, definitions, pairs) ==
  [isArray |-> FALSE, isObject |-> TRUE, items |-> <<>>,
   definition |-> definition, definitions |-> definitions, pairs |-> pairs]

JsonNull ==
  [isArray |-> FALSE, isObject |-> FALSE, items |-> <<>>,
   definition |-> NotString, definitions |-> NotArray, pairs |-> NotArray]

\* the JSON documents of the model
JsonDocs ==
  {"[]", "[pair]", "[blank]", "{}", "{pairs}", "{definition}",
   "{definition:blank}", "{definitions:w}", "{definitions:o}", "null"}

PairItem == Item(Str(<<"w">>), Str(<<"l">>), NotString, FALSE)

\* JSON.parse of a document
JsonValue(doc) ==
  CASE doc = "[]" -> JsonArray(<<>>)
    [] doc = "[pair]" -> JsonArray(<<PairItem>>)
    [] doc = "[blank]" ->
         JsonArray(<<Item(Str(<<" ">>), Str(<<"l">>), NotString, FALSE)>>)
    [] doc = "{}" -> JsonObject(NotString, NotArray, NotArray)
    [] doc = "{pairs}" -> JsonObject(NotString, NotArray, Arr(<<PairItem>>))
    [] doc = "{definition}" -> JsonObject(Str(<<"d">>), NotArray, NotArray)
    [] doc = "{definition:blank}" -> JsonObject(Str(<<" ">>), NotArray, NotArray)
    [] doc = "{definitions:w}" ->
         JsonObject(NotString,
                    Arr(<<Item(Str(<<"w">>), NotString, Str(<<"d">>), FALSE)>>),
                    NotArray)
    [] doc = "{definitions:o}" ->
         JsonObject(NotString,
                    Arr(<<Item(Str(<<"o">>), NotString, Str(<<"d">>), FALSE)>>),
                    NotArray)
    [] doc = "null" -> JsonNull

\* .replace(/^```(?:json)?\s*/i, "")
StripOpeningFence(str) ==
  IF str # <<>> /\ str[1] = "f" THEN TrimStart(Tail(str)) ELSE str

\* .replace(/\s*```$/, "")
StripClosingFence(str) ==
  IF str # <<>> /\ str[Len(str)] = "f"
  THEN TrimEnd(SubSeq(str, 1, Len(str) - 1)) ELSE str

\* rawText.trim().replace(/^```(?:json)?\s*/i, "").replace(/\s*```$/, "").trim()
JsonCandidate(rawText) ==
  Trim(StripClosingFence(StripOpeningFence(Trim(rawText))))

\* JSON.parse(jsonCandidate) does not throw: the candidate is one document
JsonParses(jsonCandidate) ==
  Len(jsonCandidate) = 1 /\ jsonCandidate[1] \in JsonDocs

\* typeof value.word === "string" ? value.word.trim() : ""
TrimmedString(value) == IF value.isString THEN Trim(value.str) ELSE <<>>

\* the result of an API call's continuation: it threw error, or it returned
Threw(error) == [threw |-> TRUE, value |-> error, definitions |-> <<>>]

Returned(value, definitions) ==
  [threw |-> FALSE, value |-> value, definitions |-> definitions]

\* .filter((value) => !!value && typeof value === "object")
Objects(array) == SelectSeq(array, LAMBDA value : value.isObject)

\* .map(...) of normalizeTranslationLiteralPairs
TrimmedPairs(objects) ==
  [i \in 1..Len(objects) |->
     [word |-> TrimmedString(objects[i].word),
      literal |-> TrimmedString(objects[i].literal),
      punctuation |-> objects[i].punctuation]]

\* normalizeTranslationLiteralPairs
normalizeTranslationLiteralPairs(parsed) ==
  SelectSeq(
    TrimmedPairs(Objects(
      IF parsed.isArray THEN parsed.items
      ELSE IF parsed.isObject /\ parsed.pairs.isArray THEN parsed.pairs.items
      ELSE <<>>)),
    LAMBDA value : value.word # <<>> /\ (value.literal # <<>> \/ value.punctuation))

\* parseStructuredTranslation from its jsonCandidate on, with one message
\* for every failure
TranslationOf_oneMessage(jsonCandidate) ==
  IF jsonCandidate = <<>> THEN Threw("missing translation literal pairs")
  ELSE IF ~JsonParses(jsonCandidate) THEN Threw("missing translation literal pairs")
  ELSE IF Len(normalizeTranslationLiteralPairs(JsonValue(jsonCandidate[1]))) = 0
  THEN Threw("missing translation literal pairs")
  ELSE Returned("words", <<>>)

\* parseStructuredTranslation from its jsonCandidate on
TranslationOf(jsonCandidate) ==
  IF jsonCandidate = <<>> THEN Threw("empty structured response")
  ELSE IF ~JsonParses(jsonCandidate) THEN Threw("invalid structured JSON")
  ELSE IF Len(normalizeTranslationLiteralPairs(JsonValue(jsonCandidate[1]))) = 0
  THEN Threw("missing translation literal pairs")
  ELSE Returned("words", <<>>)

\* parseStructuredTranslation
parseStructuredTranslation(rawText) == TranslationOf(JsonCandidate(rawText))

\* const parsedDefinitionText
ParsedDefinitionText(parsed) ==
  IF parsed.isObject /\ parsed.definition.isString
  THEN Trim(parsed.definition.str) ELSE <<>>

\* .map(...) of parseStructuredDefinitions
TrimmedDefinitions(objects) ==
  [i \in 1..Len(objects) |->
     [word |-> TrimmedString(objects[i].word),
      definition |-> TrimmedString(objects[i].definition)]]

\* const normalizedDefinitions
NormalizedDefinitions(parsed) ==
  SelectSeq(
    TrimmedDefinitions(Objects(
      IF parsed.isObject /\ parsed.definitions.isArray
      THEN parsed.definitions.items ELSE <<>>)),
    LAMBDA value : value.word # <<>> /\ value.definition # <<>>)

\* the entries of a word in normalizedDefinitions
EntriesOf(normalizedDefinitions, word) ==
  {i \in 1..Len(normalizedDefinitions) : normalizedDefinitions[i].word = word}

\* the last of a non-empty set of entries
LastOf(entries) == CHOOSE i \in entries : \A j \in entries : j <= i

\* new Map(normalizedDefinitions.map(...)).get(requestedWord) || "": the
\* last entry of the word wins
DefinitionByWord(normalizedDefinitions, requestedWord) ==
  IF EntriesOf(normalizedDefinitions, requestedWord) = {} THEN <<>>
  ELSE normalizedDefinitions[LastOf(EntriesOf(normalizedDefinitions, requestedWord))].definition

\* [{ word: requestedWord, definition: fallbackDefinition }].filter(...)
DefinitionList(requestedWord, fallbackDefinition) ==
  IF fallbackDefinition # <<>>
  THEN <<[word |-> requestedWord, definition |-> fallbackDefinition]>>
  ELSE <<>>

\* parseStructuredDefinitions from parsedDefinitionText and
\* normalizedDefinitions on
DefinitionsFrom(parsedDefinitionText, normalizedDefinitions, requestedWord) ==
  IF Len(normalizedDefinitions) = 0 /\ parsedDefinitionText = <<>>
  THEN Threw("missing 'definitions'")
  ELSE Returned("definitions",
         DefinitionList(requestedWord,
           IF parsedDefinitionText # <<>> THEN parsedDefinitionText
           ELSE DefinitionByWord(normalizedDefinitions, requestedWord)))

\* parseStructuredDefinitions from its jsonCandidate on
DefinitionsOf(jsonCandidate, requestedWord) ==
  IF jsonCandidate = <<>> THEN Threw("empty structured definitions response")
  ELSE IF ~JsonParses(jsonCandidate) THEN Threw("invalid structured definitions JSON")
  ELSE DefinitionsFrom(ParsedDefinitionText(JsonValue(jsonCandidate[1])),
                       NormalizedDefinitions(JsonValue(jsonCandidate[1])),
                       requestedWord)

\* parseStructuredDefinitions(rawText, requestedWord).definitions
parseStructuredDefinitions(rawText, requestedWord) ==
  DefinitionsOf(JsonCandidate(rawText), requestedWord)

\* the API call of request r ends with result
Returns(st, r, result) ==
  [st EXCEPT !.returned = [id |-> r, threw |-> result.threw,
                           value |-> result.value,
                           definitions |-> result.definitions]]

\* translate or getDefinitions resumes from its await with rawText
callerResumes(st, job) ==
  Returns(st, job.r,
          IF job.caller.api = "getDefinitions"
          THEN parseStructuredDefinitions(job.text, job.caller.word)
          ELSE parseStructuredTranslation(job.text))

\* One promise continuation.
RunJob(state, job) ==
  Now({(
  CASE job.t = "adopt" ->
         \* the promise returned by ensureConnected follows connectPromise
         IF st.promiseState[job.s] = "pending"
         THEN [st EXCEPT !.reactions[job.s] =
                 Append(@, Job("adopted", job.r, job.s, "none"))]
         ELSE Enqueue(st, Job("adopted", job.r, job.s,
                IF st.promiseState[job.s] = "resolved"
                THEN "none" ELSE "connection failed"))
    [] job.t = "adopted" ->
         \* ensureConnected's promise settles as connectPromise did
         IF job.e = "none"
         THEN Enqueue(st, Job("send", job.r, job.s, "none"))
         ELSE Enqueue(st, Job("rethrow", job.r, job.s, job.e))
    [] job.t = "connected" ->
         \* ensureConnected resumes from await connectPromise: finally
         LET cleared == [st EXCEPT !.connectPromise = 0] IN
         IF job.e = "none"
         THEN Enqueue(cleared, Job("send", job.r, job.s, "none"))
         ELSE Enqueue(cleared, Job("rethrow", job.r, job.s, job.e))
    [] job.t = "send" ->
         \* sendActiveRequest resumes with the socket; reading
         \* activeRequest.prompt of null throws a TypeError
         IF st.activeRequest = 0
         THEN Enqueue(st, Job("catch", job.r, job.s, "TypeError"))
         ELSE sendResponseCreate(st, job.s)
    [] job.t = "rethrow" ->
         \* sendActiveRequest resumes from its await with the rejection
         Enqueue(st, Job("catch", job.r, job.s, job.e))
    [] job.t = "catch" ->
         \* processNextRequest: catch (error) { settleActiveError(error) }
         settleActiveError(st, job.e, job.r)
    [] job.t = "resolved" ->
         \* runOpenAiRealtimeRequest resumes from its await and returns
         Enqueue(st, CallerJob("caller", job.r, job.caller, job.text))
    [] job.t = "caller" -> callerResumes(st, job)
  ) : st \in {state}})

\* One listener call of the event being dispatched.
RunListenerCall(st, call) ==
  CASE call.t = "error" -> onRuntimeError(st, call.s)
    [] call.t = "close" -> onClose(st, call.s)

\* type QueuedRequest: the id stands for the prompt, the instructions and the
\* callbacks of the request; modalities "audio" also fixes resolveAudio and
\* the token budget
QueuedRequest(r, m) == [id |-> r, modalities |-> m]

\* runOpenAiRealtimeRequest (translate, getDefinitions): push and processNext
runOpenAiRealtimeRequest(st) ==
  LET r == st.submitted + 1 IN
  processNextRequest([st EXCEPT !.submitted = r,
                                !.queuedRequests = Append(@, QueuedRequest(r, "text"))])

\* runOpenAiRealtimeAudioRequest (getAudio): push and processNext
runOpenAiRealtimeAudioRequest(st) ==
  LET r == st.submitted + 1 IN
  processNextRequest([st EXCEPT !.submitted = r,
                                !.queuedRequests = Append(@, QueuedRequest(r, "audio"))])

\* The closure of an API call that waits on the promise of a request.
Caller(api, word) == [api |-> api, word |-> word]

\* translate(text, targetLanguage) up to its await
translate(st) ==
  runOpenAiRealtimeRequest(
    [st EXCEPT !.callers[st.submitted + 1] = Caller("translate", <<>>)])

\* getDefinitions(word, targetLanguage, context) up to its await
getDefinitions(st, word) ==
  runOpenAiRealtimeRequest(
    [st EXCEPT !.callers[st.submitted + 1] = Caller("getDefinitions", word)])

\* getAudio that tests the text and the language before trimming them
getAudio_noTrim(st, text, targetLanguage) ==
  IF text = <<>>
  THEN Returns(st, 0, Threw("input cannot be empty"))
  ELSE IF targetLanguage = <<>>
  THEN Returns(st, 0, Threw("target language cannot be empty"))
  ELSE runOpenAiRealtimeAudioRequest(
         [st EXCEPT !.callers[st.submitted + 1] = Caller("getAudio", <<>>)])

\* getAudio(text, targetLanguage) up to its await or its throw
getAudio(st, text, targetLanguage) ==
  IF Trim(text) = <<>>
  THEN Returns(st, 0, Threw("input cannot be empty"))
  ELSE IF Trim(targetLanguage) = <<>>
  THEN Returns(st, 0, Threw("target language cannot be empty"))
  ELSE runOpenAiRealtimeAudioRequest(
         [st EXCEPT !.callers[st.submitted + 1] = Caller("getAudio", <<>>)])

\* the timeout callback without ws.close()
timeoutCallback_noClose(state, r) ==
  settleActiveError([state EXCEPT !.timers = @ \ {r}], "timeout", r)

\* the setTimeout callback of request r in processNextRequest
timeoutCallback(state, r) ==
  Now({(
  LET settled == settleActiveError([st EXCEPT !.timers = @ \ {r}], "timeout", r) IN
  IF settled.ws # 0 /\ settled.readyState[settled.ws] = "OPEN"
  THEN [settled EXCEPT !.readyState[settled.ws] = "CLOSING"]
  ELSE settled
  ) : st \in {state}})

RemoveAt(seq, i) == SubSeq(seq, 1, i - 1) \o SubSeq(seq, i + 1, Len(seq))

\* Events the provider sends in the specification of the multiplexer.
MuxEvents ==
  { Event("error", FALSE, <<>>, "", <<>>),
    Event("response.output_text.delta", TRUE, <<"x">>, "", <<>>),
    Event("response.output_audio.delta", TRUE, <<"x", "x", "x", "x">>, "", <<>>),
    Event("response.done", FALSE, <<>>, "completed", <<>>),
    Event("response.done", FALSE, <<>>, "failed", <<>>) }

----------------------------------------------------------------------------
\* No promise continuation and no listener call is waiting: the next timer
\* or socket callback may run.
Quiescent == microtasks = <<>> /\ listeners = <<>>

\* Promise continuations may run now.
JobsMayRun == listeners = <<>> \/ checkpoint

\* translate is called
Translate ==
  /\ submitted < MaxRequests
  /\ listeners = <<>>
  /\ \E n \in {translate(Cur)} : Becomes(n)

\* getAudio is called with non-empty text and target language
GetAudio ==
  /\ submitted < MaxRequests
  /\ listeners = <<>>
  /\ \E n \in {getAudio(Cur, <<"a">>, <<"a">>)} : Becomes(n)

\* the head of the microtask queue runs
Microtask ==
  /\ microtasks # <<>>
  /\ JobsMayRun
  /\ \E n \in {RunJob([Cur EXCEPT !.microtasks = Tail(@)], Head(microtasks))} :
       Becomes(n)

\* the open event of socket s
SocketOpen(s) ==
  /\ Quiescent
  /\ readyState[s] = "CONNECTING"
  /\ \E n \in {onOpen([Cur EXCEPT !.readyState[s] = "OPEN"], s)} : Becomes(n)

\* Socket s fails: it is closed, and its error event and then its close event
\* are dispatched.  onErrorBeforeOpen is the first error listener; whether
\* promise continuations run between two listener calls is up to the
\* runtime.
SocketFail(s) ==
  /\ Quiescent
  /\ readyState[s] \in {"CONNECTING", "OPEN"}
  /\ \E n \in {onErrorBeforeOpen([Cur EXCEPT !.readyState[s] = "CLOSED",
                                               !.upstream[s] = <<>>], s)} :
     \E c \in BOOLEAN :
       Becomes([n EXCEPT !.listeners = <<Job("error", 0, s, "none"),
                                         Job("close", 0, s, "none")>>,
                         !.checkpoint = IF n.microtasks = <<>> THEN TRUE ELSE c])

\* the next listener call of the event being dispatched
Listener ==
  /\ listeners # <<>>
  /\ microtasks = <<>> \/ ~checkpoint
  /\ \E n \in {RunListenerCall([Cur EXCEPT !.listeners = Tail(@)], Head(listeners))} :
     \E c \in BOOLEAN :
       Becomes([n EXCEPT !.checkpoint =
                  IF n.microtasks = <<>> \/ n.listeners = <<>> THEN TRUE ELSE c])

\* Socket s closes without an error: the provider closes it, or the closing
\* handshake started by close() completes.
SocketClose(s) ==
  /\ Quiescent
  /\ readyState[s] \in {"OPEN", "CLOSING"}
  /\ \E n \in {onClose([Cur EXCEPT !.readyState[s] = "CLOSED",
                                    !.upstream[s] = <<>>], s)} : Becomes(n)

\* the timeout of request r expires
Timeout(r) ==
  /\ Quiescent
  /\ r \in timers
  /\ \E n \in {timeoutCallback(Cur, r)} : Becomes(n)

\* The provider sends event ev of the i-th response it is producing on the
\* open socket s; response.done ends that response.
\* what has been delivered to the request in the slot once ev has arrived
\* too, the text buffer being buffer
Delivered(log, ev, buffer) ==
  CASE ev.type = "response.output_text.delta" /\ ev.isString ->
         [log EXCEPT !.text = @ \o ev.data]
    [] ev.type \in {"response.audio.delta", "response.output_audio.delta"}
         /\ ev.isString ->
         [log EXCEPT !.audio = Append(@, ev.data)]
    [] ev.type = "response.output_text.done" /\ ev.isString
         /\ Trim(buffer) = <<>> ->
         [log EXCEPT !.replaced = TRUE]
    [] OTHER -> log

Message(s, i, ev) ==
  /\ Quiescent
  /\ readyState[s] = "OPEN"
  /\ i \in 1..Len(upstream[s])
  /\ eventCount < MaxEvents
  /\ \E n \in {onRealtimeMessage(Cur, ev, upstream[s][i])} :
     Becomes([n EXCEPT !.eventCount = @ + 1,
                       !.received = IF activeRequest # 0 /\ n.activeRequest = activeRequest
                                    THEN Delivered(received, ev, streamedText)
                                    ELSE @,
                       !.upstream[s] = IF ev.type = "response.done"
                                       THEN RemoveAt(@, i) ELSE @,
                       !.lastDone = IF /\ n.settleCount # settleCount
                                       /\ ev.type = "response.done"
                                    THEN [s |-> s, status |-> ev.status] ELSE @])

Next ==
  \/ Translate
  \/ GetAudio
  \/ Microtask
  \/ Listener
  \/ \E s \in SockIds : SocketOpen(s)
  \/ \E s \in SockIds : SocketFail(s)
  \/ \E s \in SockIds : SocketClose(s)
  \/ \E r \in ReqIds : Timeout(r)
  \/ \E s \in SockIds : \E i \in 1..MaxRequests : \E ev \in MuxEvents : Message(s, i, ev)

Spec == Init /\ [][Next]_vars

----------------------------------------------------------------------------
\* The translator with the inputs of its API and the events and texts of the
\* provider in full, on a connection that does not fail.

\* words asked of getDefinitions
Words == {<<"w">>}

\* texts and languages given to getAudio
AudioInputs == {<<>>, <<" ">>, <<"a">>}

\* texts the provider sends whole, in response.output_text.done
Payloads ==
  {<<" ">>, <<"x">>, <<"f", " ", "[pair]", " ", "f">>} \cup {<<doc>> : doc \in JsonDocs}

\* pieces of text the provider streams, in response.output_text.delta
DeltaPayloads == {<<" ">>, <<"x">>, <<"{definition}">>}

\* events the provider sends
ApiEvents ==
  {Event("", FALSE, <<>>, "", <<>>),
   Event("session.updated", FALSE, <<>>, "", <<>>),
   Event("response.done", FALSE, <<>>, "completed", <<" ">>),
   Event("error", FALSE, <<>>, "", <<>>),
   Event("response.output_text.delta", FALSE, <<>>, "", <<>>),
   Event("response.audio.delta", TRUE, <<>>, "", <<>>),
   Event("response.output_audio.delta", TRUE, <<"x", "x", "x", "x">>, "", <<>>)}
  \cup {Event("response.output_text.delta", TRUE, p, "", <<>>) : p \in DeltaPayloads}
  \cup {Event("response.output_text.done", TRUE, p, "", <<>>) : p \in Payloads}
  \cup {Event("response.done", FALSE, <<>>, status, output) :
          status \in {"completed", "incomplete", "failed", ""},
          output \in {<<>>, <<"[pair]">>}}

\* getDefinitions is called
GetDefinitions(word) ==
  /\ submitted < MaxRequests
  /\ listeners = <<>>
  /\ \E n \in {getDefinitions(Cur, word)} : Becomes(n)

\* getAudio is called
GetAudioWith(text, targetLanguage) ==
  /\ submitted < MaxRequests
  /\ listeners = <<>>
  /\ \E n \in {getAudio(Cur, text, targetLanguage)} : Becomes(n)

NextApi ==
  \/ Translate
  \/ \E word \in Words : GetDefinitions(word)
  \/ \E text \in AudioInputs : \E targetLanguage \in AudioInputs :
       GetAudioWith(text, targetLanguage)
  \/ Microtask
  \/ \E s \in SockIds : SocketOpen(s)
  \/ \E s \in SockIds : \E i \in 1..MaxRequests : \E ev \in ApiEvents : Message(s, i, ev)

SpecApi == Init /\ [][NextApi]_vars

\* Callbacks are eventually run and an armed timeout eventually fires.
SpecLive ==
  /\ Init /\ [][Next]_vars
  /\ WF_vars(Microtask)
  /\ WF_vars(Listener)
  /\ WF_vars(\E r \in ReqIds : Timeout(r))

----------------------------------------------------------------------------
\* AudioUtils.ts.  A Buffer is a sequence of bytes 0..255.  A base64 string
\* is the sequence of the positions 0..63 its characters have in the base64
\* alphabet, with Pad for the character "=".
MaxSamples == 2

Pad == 64

\* Buffer.prototype.toString("base64") of at most three bytes
Base64Quantum(bytes) ==
  CASE Len(bytes) = 0 -> <<>>
    [] Len(bytes) = 1 ->
         <<bytes[1] \div 4, (bytes[1] % 4) * 16, Pad, Pad>>
    [] Len(bytes) = 2 ->
         <<bytes[1] \div 4, (bytes[1] % 4) * 16 + bytes[2] \div 16,
           (bytes[2] % 16) * 4, Pad>>
    [] OTHER ->
         <<bytes[1] \div 4, (bytes[1] % 4) * 16 + bytes[2] \div 16,
           (bytes[2] % 16) * 4 + bytes[3] \div 64, bytes[3] % 64>>

RECURSIVE toBase64(_)
\* Buffer.prototype.toString("base64")
toBase64(bytes) ==
  IF Len(bytes) <= 3 THEN Base64Quantum(bytes)
  ELSE Base64Quantum(SubSeq(bytes, 1, 3)) \o toBase64(SubSeq(bytes, 4, Len(bytes)))

\* only whole groups of four characters are decoded
fromSextets_wholeQuanta(sx) ==
  [i \in 1..(3 * (Len(sx) \div 4)) |->
     CASE i % 3 = 1 -> sx[4 * ((i - 1) \div 3) + 1] * 4 + sx[4 * ((i - 1) \div 3) + 2] \div 16
       [] i % 3 = 2 -> (sx[4 * ((i - 1) \div 3) + 2] % 16) * 16 + sx[4 * ((i - 1) \div 3) + 3] \div 4
       [] OTHER -> (sx[4 * ((i - 1) \div 3) + 3] % 4) * 64 + sx[4 * ((i - 1) \div 3) + 4]]

RECURSIVE fromSextets(_)
\* four characters carry three bytes; two or three characters left over
\* carry one or two bytes, one character left over carries none
fromSextets(sx) ==
  CASE Len(sx) < 2 -> <<>>
    [] Len(sx) = 2 -> <<sx[1] * 4 + sx[2] \div 16>>
    [] Len(sx) = 3 ->
         <<sx[1] * 4 + sx[2] \div 16, (sx[2] % 16) * 16 + sx[3] \div 4>>
    [] OTHER ->
         <<sx[1] * 4 + sx[2] \div 16, (sx[2] % 16) * 16 + sx[3] \div 4,
           (sx[3] % 4) * 64 + sx[4]>> \o fromSextets(SubSeq(sx, 5, Len(sx)))

\* Buffer.from(chunk, "base64"): the characters before the padding are decoded
fromBase64(chunk) ==
  fromSextets(SubSeq(chunk, 1, Cardinality({i \in 1..Len(chunk) :
                                             \A j \in 1..i : chunk[j] # Pad})))

RECURSIVE concat(_)
\* Buffer.concat(chunks.map((chunk) => Buffer.from(chunk, "base64")))
concat(chunks) ==
  IF Len(chunks) = 0 THEN <<>> ELSE fromBase64(Head(chunks)) \o concat(Tail(chunks))

\* a 16-bit pattern read as a two's complement number
Int16(pattern) == IF pattern >= 32768 THEN pattern - 65536 ELSE pattern

\* Buffer.prototype.readInt16LE, offset counted from 0
readInt16LE(buffer, offset) == Int16(buffer[offset + 1] + 256 * buffer[offset + 2])

\* the two bytes Buffer.prototype.writeInt16LE stores
writeInt16LE(value) ==
  <<(value + 65536) % 256, ((value + 65536) \div 256) % 256>>

\* the offsets the loops of boostPcm16Volume visit: offset + 1 < length
Offsets(buffer) == {2 * i : i \in 0..((Len(buffer) \div 2) - 1)}

Abs(n) == IF n < 0 THEN -n ELSE n

\* maxAbsoluteSample when the first loop stops after one sample
maxAbsoluteSample_first(pcmAudio) ==
  IF Offsets(pcmAudio) = {} THEN 0 ELSE Abs(readInt16LE(pcmAudio, 0))

\* maxAbsoluteSample after the first loop of boostPcm16Volume
maxAbsoluteSample(pcmAudio) ==
  CHOOSE m \in {0} \cup {Abs(readInt16LE(pcmAudio, o)) : o \in Offsets(pcmAudio)} :
    \A o \in Offsets(pcmAudio) : Abs(readInt16LE(pcmAudio, o)) <= m

targetPeakAmplitude == 29490

\* maxBoostFactor = 1.8, in tenths
maxBoostFactor == 18

\* gain = Math.max(1, maxBoostFactor): safeBoostFactor is left out
gain_onlyMax(peak) == "maxBoostFactor"

\* gain = Math.max(1, Math.min(maxBoostFactor, safeBoostFactor)): which of
\* the three it is.  safeBoostFactor is never within rounding of 1.8 or of 1
\* without being equal to it.
gain(peak) ==
  CASE targetPeakAmplitude * 10 >= maxBoostFactor * peak -> "maxBoostFactor"
    [] targetPeakAmplitude <= peak -> "1"
    [] OTHER -> "safeBoostFactor"

\* Math.round of the exact quotient num / den: halves go up
Round(num, den) == (2 * num + den) \div (2 * den)

RECURSIVE Doubled(_, _, _)
\* v * 2^n modulo m
Doubled(v, n, m) == IF n = 0 THEN v ELSE Doubled((2 * v) % m, n - 1, m)

\* The double safeBoostFactor is targetPeakAmplitude / peak rounded to 52
\* fraction bits, ties to even.  With rem the remainder of
\* targetPeakAmplitude * 2^52 by peak and odd the parity of the quotient,
\* the double exceeds the exact quotient by this many units of
\* 1 / (peak * 2^52).
Excess(rem, odd, peak) ==
  CASE rem = 0 -> 0
    [] 2 * rem < peak -> -rem
    [] 2 * rem > peak -> peak - rem
    [] OTHER -> IF odd THEN peak - rem ELSE -rem

ExcessOf(scaled, peak) == Excess(scaled % peak, scaled >= peak, peak)

safeBoostFactorExcess(peak) ==
  ExcessOf(Doubled(targetPeakAmplitude % (2 * peak), 52, 2 * peak), peak)

RECURSIVE Binade(_)
\* the largest power of two that is at most n
Binade(n) == IF n < 2 THEN 1 ELSE 2 * Binade(n \div 2)

\* The double sample * safeBoostFactor when the exact product is halfway
\* between two integers: the product of sample and the double quotient,
\* rounded to 52 fraction bits, falls below the half when the excess pulls
\* it down by more than half a unit in the last place.
FallsBelowHalf(sample, peak, excess) ==
  /\ sample * excess < 0
  /\ 2 * Abs(sample) * Abs(excess)
       > peak * Binade(Abs(sample * targetPeakAmplitude) \div peak)

\* Math.round(sample * maxBoostFactor) where safeBoostFactor is the gain
RoundSafe_maxBoost(sample, peak) == Round(sample * maxBoostFactor, 10)

\* Math.round(sample * safeBoostFactor): the exact product is first tested
\* for lying halfway between two integers
RoundSafe(sample, peak) ==
  IF /\ (2 * sample * targetPeakAmplitude + peak) % (2 * peak) = 0
     /\ FallsBelowHalf(sample, peak, safeBoostFactorExcess(peak))
  THEN Round(sample * targetPeakAmplitude, peak) - 1
  ELSE Round(sample * targetPeakAmplitude, peak)

\* boostedSample = Math.trunc(sample * gain)
boostedSample_truncated(sample, peak) ==
  IF gain(peak) = "maxBoostFactor"
  THEN (IF sample < 0 THEN -((-sample * maxBoostFactor) \div 10)
        ELSE (sample * maxBoostFactor) \div 10)
  ELSE sample

\* boostedSample = Math.round(sample * gain), for the gain of this peak
boostedSample(sample, peak) ==
  CASE gain(peak) = "maxBoostFactor" -> Round(sample * maxBoostFactor, 10)
    [] gain(peak) = "safeBoostFactor" -> RoundSafe(sample, peak)
    [] OTHER -> sample

\* clampedSample = Math.max(-32768, Math.min(32767, boostedSample))
clampedSample(boosted) ==
  IF boosted > 32767 THEN 32767 ELSE IF boosted < -32768 THEN -32768 ELSE boosted

\* boostedPcmAudio after the second loop of boostPcm16Volume: every sample
\* is rewritten, a last byte that is half a sample is kept
boostedPcmAudio(pcmAudio, peak) ==
  [i \in 1..Len(pcmAudio) |->
     IF i > 2 * (Len(pcmAudio) \div 2) THEN pcmAudio[i]
     ELSE writeInt16LE(clampedSample(boostedSample(
            readInt16LE(pcmAudio, 2 * ((i - 1) \div 2)), peak)))[2 - (i % 2)]]

boostPcm16Volume(pcmAudio) ==
  IF Len(pcmAudio) < 2 THEN pcmAudio
  ELSE IF maxAbsoluteSample(pcmAudio) = 0 THEN pcmAudio
  ELSE IF gain(maxAbsoluteSample(pcmAudio)) = "1" THEN pcmAudio
  ELSE boostedPcmAudio(pcmAudio, maxAbsoluteSample(pcmAudio))

\* the four bytes in big-endian order
writeUInt32LE_bigEndian(value) ==
  <<(value \div 16777216) % 256, (value \div 65536) % 256, (value \div 256) % 256,
    value % 256>>

\* the bytes Buffer.prototype.writeUInt32LE and writeUInt16LE store
writeUInt32LE(value) ==
  <<value % 256, (value \div 256) % 256, (value \div 65536) % 256,
    (value \div 16777216) % 256>>

writeUInt16LE(value) == <<value % 256, (value \div 256) % 256>>

headerSize == 44

\* the header, written with the character codes of "RIFF", "WAVE", "fmt "
\* and "data", and the PCM bytes copied after it
encodePcm16ToWav(pcmAudio, sampleRate, channelCount, bitsPerSample) ==
  <<82, 73, 70, 70>> \o writeUInt32LE(36 + Len(pcmAudio))
    \o <<87, 65, 86, 69>> \o <<102, 109, 116, 32>>
    \o writeUInt32LE(16) \o writeUInt16LE(1) \o writeUInt16LE(channelCount)
    \o writeUInt32LE(sampleRate)
    \o writeUInt32LE(sampleRate * ((channelCount * bitsPerSample) \div 8))
    \o writeUInt16LE((channelCount * bitsPerSample) \div 8)
    \o writeUInt16LE(bitsPerSample) \o <<100, 97, 116, 97>>
    \o writeUInt32LE(Len(pcmAudio))
    \o pcmAudio

\* decodeBase64PcmChunksToWavBlob without its test of chunks.length
decodeBase64PcmChunksToWavBlob_noEmptyCheck(chunks) ==
  Blob(encodePcm16ToWav(boostPcm16Volume(concat(chunks)), 24000, 1, 16), "audio/wav")

decodeBase64PcmChunksToWavBlob(chunks) ==
  IF Len(chunks) = 0 THEN Blob(<<>>, "audio/wav")
  ELSE Blob(encodePcm16ToWav(boostPcm16Volume(concat(chunks)), 24000, 1, 16),
            "audio/wav")

\* samples the fragments of the provider are made of: silence, quiet and
\* loud ones, the extremes of 16 bits and the neighbours of the peaks at
\* which the gain changes
SampleValues ==
  {0, 1, -1, 278, -500, 1000, 16383, -16384, 16680, -20000, 29489, 29490,
   32000, -32768, 32767}

RECURSIVE pcmOf(_)
\* the buffer a test fills with writeInt16LE
pcmOf(samples) ==
  IF Len(samples) = 0 THEN <<>>
  ELSE writeInt16LE(Head(samples)) \o pcmOf(Tail(samples))

\* the buffers of at most MaxSamples samples, whole or with half a sample more
PcmBuffers ==
  {pcmOf(samples) \o tail :
     samples \in UNION {[1..n -> SampleValues] : n \in 0..MaxSamples},
     tail \in {<<>>, <<7>>}}

\* the lists of fragments a buffer arrives in: none at all, the buffer in one
\* fragment, or cut in two anywhere
Fragments(pcm) ==
  {<<toBase64(pcm)>>}
    \cup {<<toBase64(SubSeq(pcm, 1, cut)), toBase64(SubSeq(pcm, cut + 1, Len(pcm)))>> :
            cut \in 0..Len(pcm)}
    \cup (IF Len(pcm) = 0 THEN {<<>>} ELSE {})

\* decodeBase64PcmChunksToWavBlob is about to be called with some fragments
Chunks ==
  /\ OpenAiTranslator
  /\ \E pcm \in PcmBuffers : \E chunks \in Fragments(pcm) :
       codec = [pcm |-> pcm, chunks |-> chunks, blob |-> Blob(<<>>, ""),
                returned |-> FALSE]
  /\ server = Listening
  /\ definitionCache = Emptied
  /\ client = Client

\* decodeBase64PcmChunksToWavBlob(chunks) returns
Decode ==
  /\ ~codec.returned
  /\ codec' = [codec EXCEPT !.blob = decodeBase64PcmChunksToWavBlob(codec.chunks),
                            !.returned = TRUE]
  /\ UNCHANGED <<translatorVars, server, definitionCache, client>>

SpecAudio == Chunks /\ [][Decode]_vars

----------------------------------------------------------------------------
\* The API server (createApiServer). A websocket message is a text that may
\* be JSON; the translator is represented by the promises its three
\* operations return, which settle as Spec and SpecApi describe.
MaxMessages == 2

\* the parsed JSON of a message
WsMessage(isObject, type, requestId, text, targetLanguage, word, context, model) ==
  [isObject |-> isObject, type |-> type, requestId |-> requestId, text |-> text,
   targetLanguage |-> targetLanguage, word |-> word, context |-> context,
   model |-> model]

\* the results of parseTranslateWsMessage: { error } or a request; a field
\* the request type does not have is empty
ParseError(error) ==
  [error |-> error, type |-> "", requestId |-> <<>>, text |-> <<>>,
   targetLanguage |-> <<>>, word |-> <<>>, context |-> <<>>, model |-> ""]

ParsedRequest(type, requestId, text, targetLanguage, word, context, model) ==
  [error |-> "", type |-> type, requestId |-> requestId, text |-> text,
   targetLanguage |-> targetLanguage, word |-> word, context |-> context,
   model |-> model]

normalizedModel(model) == IF model = "anthropic" THEN "anthropic" ELSE "openai"

\* normalizeTranslateInput
normalizeTranslateInput(text, targetLanguage, model) ==
  [text |-> TrimmedString(text),
   targetLanguage |-> TrimmedString(targetLanguage),
   model |-> normalizedModel(model)]

parseTranslateRequest(message) ==
  IF normalizeTranslateInput(message.text, message.targetLanguage, message.model).text = <<>>
  THEN ParseError("Websocket message must include a non-empty 'text' string")
  ELSE IF TrimmedString(message.targetLanguage) = <<>>
  THEN ParseError("Websocket message must include a non-empty 'targetLanguage' string")
  ELSE ParsedRequest("translate.request", Trim(message.requestId.str),
                     TrimmedString(message.text), TrimmedString(message.targetLanguage),
                     <<>>, <<>>, normalizedModel(message.model))

parseAudioRequest(message) ==
  IF TrimmedString(message.text) = <<>>
  THEN ParseError("Websocket message must include a non-empty 'text' string")
  ELSE ParsedRequest("translate.audio.request", Trim(message.requestId.str),
                     TrimmedString(message.text), <<>>, <<>>, <<>>,
                     normalizedModel(message.model))

parseDefinitionsRequest(message) ==
  IF TrimmedString(message.word) = <<>>
  THEN ParseError("Websocket message must include a non-empty 'word' string")
  ELSE IF TrimmedString(message.targetLanguage) = <<>>
  THEN ParseError("Websocket message must include a non-empty 'targetLanguage' string")
  ELSE IF TrimmedString(message.context) = <<>>
  THEN ParseError("Websocket message must include a non-empty 'context' string")
  ELSE ParsedRequest("translate.definitions.request", Trim(message.requestId.str),
                     <<>>, TrimmedString(message.targetLanguage),
                     TrimmedString(message.word), TrimmedString(message.context),
                     normalizedModel(message.model))

RequestTypes ==
  {"translate.request", "translate.definitions.request", "translate.audio.request"}

\* parseTranslateWsMessage
parseTranslateWsMessage(message) ==
  IF ~message.isObject
  THEN ParseError("Invalid websocket message")
  ELSE IF message.type \notin RequestTypes
  THEN ParseError("Unsupported websocket message type")
  ELSE IF ~message.requestId.isString \/ Trim(message.requestId.str) = <<>>
  THEN ParseError("Websocket message must include a non-empty 'requestId' string")
  ELSE CASE message.type = "translate.request" -> parseTranslateRequest(message)
         [] message.type = "translate.audio.request" -> parseAudioRequest(message)
         [] OTHER -> parseDefinitionsRequest(message)

\* the message ws.send transmits; requestId is absent from the errors sent
\* before a request was parsed
Response(type, requestId) == [type |-> type, requestId |-> requestId]

successType(type) ==
  CASE type = "translate.request" -> "translate.success"
    [] type = "translate.audio.request" -> "translate.audio.success"
    [] OTHER -> "translate.definitions.success"

\* a call of translateWithModel, getAudioWithModel or getDefinitionsWithModel
\* the handler awaits: the request that made it, the requestId as the text
\* of the message had it, the state of the promise, and the number of
\* messages the handler has sent since it parsed the request
Call(request, sentId) ==
  [request |-> request, sentId |-> sentId, promise |-> "pending", responses |-> <<>>]

\* websocket.message up to its await: JSON.parse throws on a text that is
\* not JSON
websocketMessage(state, isJson, message) ==
  IF ~isJson
  THEN [state EXCEPT !.messages = @ + 1,
                     !.sent = Append(@, Response("translate.error", NotString))]
  ELSE IF parseTranslateWsMessage(message).error # ""
  THEN [state EXCEPT !.messages = @ + 1,
                     !.sent = Append(@, Response("translate.error", NotString))]
  ELSE [state EXCEPT !.messages = @ + 1,
                     !.calls = Append(@, Call(parseTranslateWsMessage(message),
                                              message.requestId.str))]

\* websocket.message after its await, in the try block when the promise
\* resolved and in the catch block when it rejected
websocketMessageResumed(state, k, outcome) ==
  [state EXCEPT
     !.calls[k].promise = outcome,
     !.calls[k].responses =
        Append(@, Response(IF outcome = "resolved"
                           THEN successType(state.calls[k].request.type)
                           ELSE "translate.error",
                           Str(state.calls[k].request.requestId))),
     !.sent =
        Append(@, Response(IF outcome = "resolved"
                           THEN successType(state.calls[k].request.type)
                           ELSE "translate.error",
                           Str(state.calls[k].request.requestId)))]

\* the values a field of a message takes
FieldValues == {NotString, Str(<<" ">>), Str(<<"x", " ">>)}

RequestIdValues == {NotString, Str(<<" ">>), Str(<<"a">>), Str(<<" ", "a">>)}

\* the messages a browser sends: of each request type with the fields of
\* that type, of an unknown type, and JSON that is not an object
WsMessages ==
  {WsMessage(TRUE, "translate.request", id, text, targetLanguage, NotString, NotString, model) :
     id \in RequestIdValues, text \in FieldValues, targetLanguage \in FieldValues,
     model \in {"anthropic", "openai"}}
  \cup
  {WsMessage(TRUE, "translate.audio.request", id, text, NotString, NotString, NotString, "openai") :
     id \in RequestIdValues, text \in FieldValues}
  \cup
  {WsMessage(TRUE, "translate.definitions.request", id, NotString, targetLanguage, word, context, "openai") :
     id \in RequestIdValues, targetLanguage \in FieldValues, word \in FieldValues,
     context \in FieldValues}
  \cup
  {WsMessage(TRUE, "ready", Str(<<"a">>), NotString, NotString, NotString, NotString, "openai"),
   WsMessage(FALSE, "", NotString, NotString, NotString, NotString, NotString, "")}

\* a message arrives on the front-door websocket
WebsocketMessage(isJson, message) ==
  /\ server.messages < MaxMessages
  /\ server' = websocketMessage(server, isJson, message)
  /\ UNCHANGED <<translatorVars, codec, definitionCache, client>>

\* the promise of call k resolves and the handler goes on
Resolved(k) ==
  /\ k \in 1..Len(server.calls)
  /\ server.calls[k].promise = "pending"
  /\ server' = websocketMessageResumed(server, k, "resolved")
  /\ UNCHANGED <<translatorVars, codec, definitionCache, client>>

\* the promise of call k rejects and the handler goes on
Rejected(k) ==
  /\ k \in 1..Len(server.calls)
  /\ server.calls[k].promise = "pending"
  /\ server' = websocketMessageResumed(server, k, "rejected")
  /\ UNCHANGED <<translatorVars, codec, definitionCache, client>>

NextServer ==
  \/ \E isJson \in BOOLEAN : \E message \in WsMessages : WebsocketMessage(isJson, message)
  \/ \E k \in 1..MaxMessages : Resolved(k)
  \/ \E k \in 1..MaxMessages : Rejected(k)

SpecServer == Init /\ [][NextServer]_vars

----------------------------------------------------------------------------
\* The definition cache of the browser (Cache). A word is a sequence of
\* characters, of which "!" stands for those definitionWordStripPattern
\* matches; the cache object is the sequence of its entries.
MaxItems == 2

MaxCalls == 3

\* Cache(maxItems)
maxItems == MaxItems

IsWordCharacter(c) == c # "!"

\* normalizeDefinition
normalizeDefinition(word) == SelectSeq(word, IsWordCharacter)

WordDefinition(word, definition) == [word |-> word, definition |-> definition]

\* Object.keys(cache)
Keys(object) == {object[i].word : i \in 1..Len(object)}

IsNot(word, entry) == entry.word # word

\* delete cache[word]
Delete(object, word) == SelectSeq(object, LAMBDA entry : IsNot(word, entry))

\* cache[word] = definition: an own property keeps its place, a new one is added
Assign(object, word, definition) ==
  IF word \in Keys(object)
  THEN [i \in 1..Len(object) |->
          IF object[i].word = word THEN WordDefinition(word, definition) ELSE object[i]]
  ELSE Append(object, WordDefinition(word, definition))

\* cacheOrder.filter((cachedWord) => cachedWord !== normalizedWord)
Without(order, word) == SelectSeq(order, LAMBDA cachedWord : cachedWord # word)

RECURSIVE evictOldest_newest(_)
evictOldest_newest(state) ==
  IF Len(state.cacheOrder) <= maxItems
  THEN state
  ELSE evictOldest_newest(
         [state EXCEPT !.cacheOrder = SubSeq(@, 1, Len(@) - 1),
                       !.cache = Delete(@, state.cacheOrder[Len(state.cacheOrder)])])

\* the while loop of writeDefinitionsToCache; shift() of an empty list gives
\* undefined, which ends the callback
RECURSIVE evictOldest(_)
evictOldest(state) ==
  IF Len(state.cacheOrder) <= maxItems
  THEN state
  ELSE IF state.cacheOrder = <<>>
  THEN state
  ELSE evictOldest([state EXCEPT !.cacheOrder = Tail(@),
                                 !.cache = Delete(@, Head(state.cacheOrder))])

\* the callback of definitions.forEach in writeDefinitionsToCache
writeDefinition(state, entry) ==
  IF normalizeDefinition(entry.word) = <<>> \/ entry.definition = <<>>
  THEN state
  ELSE evictOldest(
         [state EXCEPT
            !.cache = Assign(@, normalizeDefinition(entry.word), entry.definition),
            !.cacheOrder = Append(Without(@, normalizeDefinition(entry.word)),
                                  normalizeDefinition(entry.word)),
            !.written = Append(@, normalizeDefinition(entry.word))])

RECURSIVE writeDefinitionsToCache(_, _)
writeDefinitionsToCache(state, definitions) ==
  IF definitions = <<>>
  THEN state
  ELSE writeDefinitionsToCache(writeDefinition(state, Head(definitions)),
                               Tail(definitions))

\* clear
clear(state) == [state EXCEPT !.cacheOrder = <<>>, !.cache = <<>>, !.written = <<>>]

\* the definitions the server sends: words with and without stripped
\* characters, definitions empty and not
DefinitionEntries ==
  {WordDefinition(word, definition) :
     word \in {<<"a">>, <<"b">>, <<"c">>, <<"a", "!">>, <<"!">>},
     definition \in {<<>>, <<"d">>, <<"e">>}}

DefinitionLists ==
  {<<entry>> : entry \in DefinitionEntries}
  \cup {<<first, second>> : first \in DefinitionEntries, second \in DefinitionEntries}

WriteDefinitionsToCache(definitions) ==
  /\ definitionCache.calls < MaxCalls
  /\ definitionCache' =
       [writeDefinitionsToCache(definitionCache, definitions) EXCEPT !.calls = @ + 1]
  /\ UNCHANGED <<translatorVars, codec, server, client>>

Clear ==
  /\ definitionCache.calls < MaxCalls
  /\ definitionCache' = [clear(definitionCache) EXCEPT !.calls = @ + 1]
  /\ UNCHANGED <<translatorVars, codec, server, client>>

NextCache ==
  \/ \E definitions \in DefinitionLists : WriteDefinitionsToCache(definitions)
  \/ Clear

SpecCache == Init /\ [][NextCache]_vars

----------------------------------------------------------------------------
\* The browser client (Client). A request id is the value of requestCounter
\* it was made from; a signature is the tuple of the parts it joins.

\* options.<callback>(...): the callbacks the step has invoked, in order
Invoke(st, callbacks) == [st EXCEPT !.called = @ \o callbacks]

\* text.replace(/\s+/g, " "): a run of spaces becomes one space
RECURSIVE CollapseSpaces(_)
CollapseSpaces(text) ==
  IF Len(text) < 2
  THEN text
  ELSE IF text[1] = " " /\ text[2] = " "
  THEN CollapseSpaces(Tail(text))
  ELSE <<Head(text)>> \o CollapseSpaces(Tail(text))

\* normalizeText
normalizeText(text) == Trim(CollapseSpaces(text))

\* getRequestSignature
getRequestSignature(requestInput) ==
  <<requestInput.model, normalizeText(requestInput.text), requestInput.targetLanguage>>

\* getDefinitionRequestSignature
getDefinitionRequestSignature(word, context, targetLanguage, model) ==
  <<model, targetLanguage, normalizeDefinition(word), normalizeText(context)>>

\* clearReconnectTimeout
clearReconnectTimeout(st) ==
  IF st.reconnectTimeoutId = 0
  THEN st
  ELSE [st EXCEPT !.timers = @ \ {st.reconnectTimeoutId},
                  !.reconnectTimeoutId = 0]

\* clearDefinitionRequestState
clearDefinitionRequestState(st) ==
  [st EXCEPT !.latestDefinitionsRequestId = 0,
             !.lastDefinitionRequestSignature = <<>>]

\* clearAudioRequestState
clearAudioRequestState(st) ==
  Invoke([st EXCEPT !.latestAudioRequestId = 0], <<"onAudioLoadingChange">>)

\* clearAllRequestState
clearAllRequestState(st) ==
  clearAudioRequestState(clearDefinitionRequestState(
    Invoke([st EXCEPT !.latestRequest = NoRequest,
                      !.currentNormalizedInputText = <<>>,
                      !.lastRequestedSignature = <<>>,
                      !.lastTranslate.cleared = TRUE],
           <<"onLatestRequestChange">>)))

\* the socket exists and is open
CanSend(st) == st.socket # 0 /\ st.readyState[st.socket] = "OPEN"

\* a request the socket has carried to the server
Request(type, requestId) == [type |-> type, requestId |-> requestId]

\* sendTranslateRequest
sendTranslateRequest(st, requestInput) ==
  IF requestInput.text = <<>> \/ ~CanSend(st)
  THEN st
  ELSE IF st.lastRequestedSignature = getRequestSignature(requestInput)
  THEN st
  ELSE Invoke(
         [st EXCEPT
            !.requestCounter = @ + 1,
            !.latestRequest = [id |-> st.requestCounter + 1,
                               normalizedInputText |-> normalizeText(requestInput.text)],
            !.lastTranslate = [id |-> st.requestCounter + 1,
                               normalizedInputText |-> normalizeText(requestInput.text),
                               cleared |-> FALSE],
            !.lastRequestedSignature = getRequestSignature(requestInput),
            !.sent[st.socket] = @ \cup {Request("translate.request", st.requestCounter + 1)}],
         <<"onErrorTextChange", "onTranslatingChange", "onLatestRequestChange">>)

\* sendDefinitionsRequest
sendDefinitionsRequest(st, requestInput) ==
  IF \/ normalizeDefinition(requestInput.word) = <<>>
     \/ normalizeText(requestInput.context) = <<>>
     \/ ~CanSend(st)
  THEN st
  ELSE IF st.lastDefinitionRequestSignature =
            getDefinitionRequestSignature(normalizeDefinition(requestInput.word),
                                          normalizeText(requestInput.context),
                                          requestInput.targetLanguage, requestInput.model)
  THEN st
  ELSE Invoke(
         [st EXCEPT
            !.requestCounter = @ + 1,
            !.latestDefinitionsRequestId = st.requestCounter + 1,
            !.lastDefinitionRequestSignature =
               getDefinitionRequestSignature(normalizeDefinition(requestInput.word),
                                             normalizeText(requestInput.context),
                                             requestInput.targetLanguage, requestInput.model),
            !.sent[st.socket] =
               @ \cup {Request("translate.definitions.request", st.requestCounter + 1)}],
         <<"onDefinitionLoadingChange">>)

\* sendAudioRequest
sendAudioRequest(st, requestInput) ==
  IF \/ normalizeText(requestInput.text) = <<>>
     \/ Trim(requestInput.targetLanguage) = <<>>
     \/ ~CanSend(st)
  THEN st
  ELSE Invoke(
         [st EXCEPT
            !.requestCounter = @ + 1,
            !.latestAudioRequestId = st.requestCounter + 1,
            !.sent[st.socket] =
               @ \cup {Request("translate.audio.request", st.requestCounter + 1)}],
         <<"onAudioLoadingChange">>)

\* new WebSocket(...) and socket = nextSocket in connectSocket
NewSocket(st) ==
  [st EXCEPT !.socketCount = @ + 1,
             !.readyState[st.socketCount + 1] = "CONNECTING",
             !.socket = st.socketCount + 1]

\* connectSocket
connectSocket(st) ==
  Invoke(NewSocket(clearReconnectTimeout(st)), <<"onSocketOpenChange">>)

\* nextSocket.addEventListener("open", ...)
onSocketOpen(st, nextSocket) ==
  IF st.isDisposed \/ st.socket # nextSocket
  THEN st
  ELSE Invoke(st, <<"onSocketOpenChange", "onErrorTextChange">>)

\* a message of the server: a text that is not JSON, or type and requestId
\* (0 when the message has none)
ServerMessage(isJson, type, requestId) ==
  [isJson |-> isJson, type |-> type, requestId |-> requestId]

isActiveCurrentRequest_anyId(st, message) ==
  /\ st.latestRequest.id # 0
  /\ st.latestRequest.normalizedInputText # <<>>
  /\ st.currentNormalizedInputText # <<>>
  /\ st.currentNormalizedInputText = st.latestRequest.normalizedInputText

\* isActiveCurrentRequest in the message listener
isActiveCurrentRequest(st, message) ==
  /\ st.latestRequest.id # 0
  /\ st.latestRequest.normalizedInputText # <<>>
  /\ st.currentNormalizedInputText # <<>>
  /\ st.currentNormalizedInputText = st.latestRequest.normalizedInputText
  /\ message.requestId = 0 \/ message.requestId = st.latestRequest.id

\* the message listener from isActiveCurrentRequest on
onTranslateMessage(st, message) ==
  IF ~isActiveCurrentRequest(st, message)
  THEN st
  ELSE IF message.type = "translate.success"
  THEN Invoke(st, <<"onTranslatingChange", "onTranslateSuccess", "onErrorTextChange">>)
  ELSE IF message.type = "translate.error"
  THEN Invoke(st, <<"onTranslatingChange", "onTranslateError">>)
  ELSE Invoke(st, <<"onTranslatingChange">>)

\* nextSocket.addEventListener("message", ...)
onSocketMessage(st, nextSocket, message) ==
  IF st.isDisposed \/ st.socket # nextSocket
  THEN st
  ELSE IF ~message.isJson
  THEN Invoke(st, <<"onTranslatingChange", "onErrorTextChange">>)
  ELSE IF message.type = "ready"
  THEN st
  ELSE IF message.type = "translate.definitions.success"
  THEN IF message.requestId # st.latestDefinitionsRequestId
       THEN st
       ELSE Invoke(st, <<"onDefinitionsSuccess">>)
  ELSE IF message.type = "translate.audio.success"
  THEN IF message.requestId # st.latestAudioRequestId
       THEN st
       ELSE Invoke(st, <<"onAudioLoadingChange", "onAudioSuccess">>)
  ELSE IF /\ message.type = "translate.error"
          /\ message.requestId # 0
          /\ message.requestId = st.latestDefinitionsRequestId
  THEN Invoke(st, <<"onDefinitionsError">>)
  ELSE IF /\ message.type = "translate.error"
          /\ message.requestId # 0
          /\ message.requestId = st.latestAudioRequestId
  THEN Invoke(st, <<"onAudioError">>)
  ELSE onTranslateMessage(st, message)

\* nextSocket.addEventListener("error", ...)
onSocketError(st, nextSocket) ==
  IF st.isDisposed \/ st.socket # nextSocket
  THEN st
  ELSE Invoke(st, <<"onSocketOpenChange">>)

\* window.setTimeout(() => { connectSocket() }, 500)
setReconnectTimeout(st) ==
  [st EXCEPT !.timerCount = @ + 1,
             !.timers = @ \cup {st.timerCount + 1},
             !.reconnectTimeoutId = st.timerCount + 1]

\* the close listener once the socket has been forgotten
onSocketClosed(st) ==
  IF st.isDisposed
  THEN st
  ELSE setReconnectTimeout(clearAllRequestState(
         Invoke(st, <<"onSocketOpenChange", "onTranslatingChange",
                      "onDefinitionLoadingChange", "onAudioLoadingChange">>)))

\* nextSocket.addEventListener("close", ...)
onSocketClose(st, nextSocket) ==
  onSocketClosed(IF st.socket = nextSocket THEN [st EXCEPT !.socket = 0] ELSE st)

\* connect
connect(st) == connectSocket([st EXCEPT !.isDisposed = FALSE])

\* activeSocket.close()
close(st, activeSocket) ==
  IF st.readyState[activeSocket] \in {"CONNECTING", "OPEN"}
  THEN [st EXCEPT !.readyState[activeSocket] = "CLOSING"]
  ELSE st

\* dispose
dispose(st) ==
  IF st.socket = 0
  THEN Invoke(clearReconnectTimeout([st EXCEPT !.isDisposed = TRUE]),
              <<"onSocketOpenChange">>)
  ELSE close(Invoke([clearReconnectTimeout([st EXCEPT !.isDisposed = TRUE])
                       EXCEPT !.socket = 0],
                    <<"onSocketOpenChange">>),
             st.socket)

\* the state a step of the client starts from: no callback invoked yet
Idle == [client EXCEPT !.called = <<>>]

\* the texts the user types, and the same as the app normalizes them
TextInputs == {<<>>, <<" ">>, <<"h", " ", " ", "i", " ">>}

NormalizedTexts == {normalizeText(text) : text \in TextInputs}

TranslateRequestInputs ==
  {[text |-> text, targetLanguage |-> <<"e", "n">>, model |-> "openai"] :
     text \in TextInputs}

DefinitionsRequestInputs ==
  {[word |-> word, context |-> <<"h">>, targetLanguage |-> <<"e", "n">>,
    model |-> "openai"] : word \in {<<"a", "!">>}}

AudioRequestInputs ==
  {[text |-> text, targetLanguage |-> <<"e", "n">>, model |-> "openai"] :
     text \in {<<"h">>}}

\* the response the server sends to a request, by the outcome of the
\* translator's promise
ResponseTo(request, outcome) ==
  ServerMessage(TRUE,
                IF outcome = "resolved" THEN successType(request.type)
                ELSE "translate.error",
                request.requestId)

\* the app calls connect() when the client has no socket: after
\* construction, after dispose(), or after a close
Connect ==
  /\ client.socket = 0
  /\ client.socketCount < MaxSockets
  /\ client' = connect(Idle)
  /\ UNCHANGED <<translatorVars, codec, server, definitionCache>>

Dispose ==
  /\ ~client.isDisposed
  /\ client' = dispose(Idle)
  /\ UNCHANGED <<translatorVars, codec, server, definitionCache>>

SetCurrentNormalizedInputText(normalizedInputText) ==
  /\ client.currentNormalizedInputText # normalizedInputText
  /\ client' = [Idle EXCEPT !.currentNormalizedInputText = normalizedInputText]
  /\ UNCHANGED <<translatorVars, codec, server, definitionCache>>

ClearAllRequestState ==
  /\ client.latestRequest.id # 0
  /\ client' = clearAllRequestState(Idle)
  /\ UNCHANGED <<translatorVars, codec, server, definitionCache>>

SendTranslateRequest(requestInput) ==
  /\ client.requestCounter < MaxSends
  /\ CanSend(client)
  /\ client' = sendTranslateRequest(Idle, requestInput)
  /\ UNCHANGED <<translatorVars, codec, server, definitionCache>>

SendDefinitionsRequest(requestInput) ==
  /\ client.requestCounter < MaxSends
  /\ CanSend(client)
  /\ client' = sendDefinitionsRequest(Idle, requestInput)
  /\ UNCHANGED <<translatorVars, codec, server, definitionCache>>

SendAudioRequest(requestInput) ==
  /\ client.requestCounter < MaxSends
  /\ CanSend(client)
  /\ client' = sendAudioRequest(Idle, requestInput)
  /\ UNCHANGED <<translatorVars, codec, server, definitionCache>>

\* socket s opens
ClientSocketOpen(s) ==
  /\ client.readyState[s] = "CONNECTING"
  /\ client' = onSocketOpen([Idle EXCEPT !.readyState[s] = "OPEN"], s)
  /\ UNCHANGED <<translatorVars, codec, server, definitionCache>>

\* the connection of socket s fails: the error event, the close event to come
ClientSocketError(s) ==
  /\ client.readyState[s] \in {"CONNECTING", "OPEN"}
  /\ client' = onSocketError([Idle EXCEPT !.readyState[s] = "CLOSED",
                                          !.closeEvents = @ \cup {s}], s)
  /\ UNCHANGED <<translatorVars, codec, server, definitionCache>>

\* the close event of socket s: after an error, after close(), or because
\* the server closed the connection
ClientSocketClose(s) ==
  /\ client.readyState[s] \in {"OPEN", "CLOSING"} \/ s \in client.closeEvents
  /\ client' = onSocketClose([Idle EXCEPT !.readyState[s] = "CLOSED",
                                          !.closeEvents = @ \ {s},
                                          !.sent[s] = {}], s)
  /\ UNCHANGED <<translatorVars, codec, server, definitionCache>>

\* a message of the server arrives on socket s
Delivery(s, message) ==
  /\ client.readyState[s] \in {"OPEN", "CLOSING"}
  /\ client' = onSocketMessage(Idle, s, message)
  /\ UNCHANGED <<translatorVars, codec, server, definitionCache>>

\* the server answers a request socket s carried
ClientResponse(s, request, outcome) ==
  /\ request \in client.sent[s]
  /\ client.readyState[s] \in {"OPEN", "CLOSING"}
  /\ client' = onSocketMessage([Idle EXCEPT !.sent[s] = @ \ {request}],
                               s, ResponseTo(request, outcome))
  /\ UNCHANGED <<translatorVars, codec, server, definitionCache>>

\* a reconnect timer that was set and not cleared fires
ReconnectTimeout(id) ==
  /\ id \in client.timers
  /\ client.socketCount < MaxSockets
  /\ client' = connectSocket([Idle EXCEPT !.timers = @ \ {id}])
  /\ UNCHANGED <<translatorVars, codec, server, definitionCache>>

RequestsSent ==
  {Request(type, requestId) : type \in RequestTypes, requestId \in 1..MaxSends}

NextClient ==
  \/ Connect
  \/ Dispose
  \/ \E text \in NormalizedTexts : SetCurrentNormalizedInputText(text)
  \/ ClearAllRequestState
  \/ \E requestInput \in TranslateRequestInputs : SendTranslateRequest(requestInput)
  \/ \E requestInput \in DefinitionsRequestInputs : SendDefinitionsRequest(requestInput)
  \/ \E requestInput \in AudioRequestInputs : SendAudioRequest(requestInput)
  \/ \E s \in SocketIds : ClientSocketOpen(s)
  \/ \E s \in SocketIds : ClientSocketError(s)
  \/ \E s \in SocketIds : ClientSocketClose(s)
  \/ \E s \in SocketIds :
       \E message \in {ServerMessage(TRUE, "ready", 0),
                       ServerMessage(TRUE, "translate.error", 0)} :
         Delivery(s, message)
  \/ \E s \in SocketIds : \E request \in RequestsSent :
       \E outcome \in {"resolved", "rejected"} : ClientResponse(s, request, outcome)
  \/ \E id \in 1..MaxTimers : ReconnectTimeout(id)

SpecClient == Init /\ [][NextClient]_vars

----------------------------------------------------------------------------
\* Vocabulary of the properties.
Settled(r) == settleCount[r] > 0

QueuedIds == {queuedRequests[i].id : i \in 1..Len(queuedRequests)}

\* the step sends a response.create message carrying request r
SendsCreate(r) == createCount'[r] > createCount[r]

\* the step invokes a settle callback of request r
Settles(r) == settleCount'[r] > settleCount[r]

\* the step runs the promise continuation t at the head of the microtask queue
RunsJob(t) == microtasks # <<>> /\ Head(microtasks).t = t /\ Microtask

LiveSockets == {s \in SockIds : readyState[s] \in {"CONNECTING", "OPEN"}}

----------------------------------------------------------------------------
\* C1: requests enter the slot in submission order (whenever a request is or
\* has been in the slot, every earlier-submitted request has settled), and a
\* response.create carrying a request is sent only when every
\* earlier-submitted request has settled.
C1_FifoDispatch ==
  /\ [](\A r \in ReqIds : \A e \in 1..(r - 1) :
          (activeRequest = r \/ Settled(r)) => Settled(e))
  /\ [][\A r \in ReqIds : SendsCreate(r) =>
          /\ activeRequest = r
          /\ \A e \in 1..(r - 1) : Settled(e)]_vars

\* the third request has been dispatched after the first two settled
C1_Witness == createCount[3] = 1 /\ Settled(1) /\ Settled(2) /\ activeRequest = 3

\* C2: the settle callbacks of a request are invoked at most once in total,
\* and only in a step that takes that request out of the slot.
C2_SettleOnce ==
  /\ [](\A r \in ReqIds : settleCount[r] <= 1)
  /\ [][\A r \in ReqIds : Settles(r) => activeRequest = r /\ activeRequest' # r]_vars

\* two requests have settled, one of them by a resolve
C2_Witness ==
  /\ settleCount[1] = 1 /\ settleCount[2] = 1
  /\ lastSettle.result \in {"text", "audio"}

\* C3: every submitted request eventually settles: again and again, every
\* request submitted so far has settled.
C3_EventuallySettles == []<>(\A r \in ReqIds : submitted >= r => Settled(r))

\* every request of the run has been submitted and has settled
C3_Witness == submitted = MaxRequests /\ \A r \in ReqIds : Settled(r)

\* C4: a settle attempted on behalf of a request (its timeout, the catch of
\* its dispatch, an event of its response) settles no other request.
C4_NoCrossSettle == lastSettle.who = 0 \/ lastSettle.who = lastSettle.id

\* C5: at most one response.create is sent for a request.
C5_OneCreatePerRequest == \A r \in ReqIds : createCount[r] <= 1

\* C6: at most one socket is connecting or open.
C6_OneLiveSocket == Cardinality(LiveSockets) <= 1

\* C7: when the timeout of the active request r fires while the connection
\* is open, r is rejected with the timeout error, close() is called on the
\* connection, and the head of the queue, if any, takes the slot with its
\* timeout armed and its dispatch under way.
C7_TimeoutAdvances ==
  [][\A r \in ReqIds :
       (Timeout(r) /\ ws # 0 /\ isWsOpen /\ readyState[ws] = "OPEN") =>
         /\ Settles(r)
         /\ lastSettle' = [id |-> r, result |-> "timeout", who |-> r]
         /\ readyState'[ws] = "CLOSING"
         /\ queuedRequests # <<>> =>
              /\ activeRequest' = Head(queuedRequests).id
              /\ queuedRequests' = Tail(queuedRequests)
              /\ timers' = {activeRequest'}
              /\ \E i \in 1..Len(microtasks') :
                   microtasks'[i].r = activeRequest']_vars

\* a timeout on an open connection has closed it and the next request has
\* the slot
C7_Witness ==
  /\ lastSettle.result = "timeout"
  /\ ws # 0 /\ readyState[ws] = "CLOSING"
  /\ activeRequest = lastSettle.id + 1

\* C8: a request is dispatched on an open connection, and the close that
\* completes a close() called by a timeout rejects no request.
C8_TimeoutHurtsOnlyItsRequest ==
  /\ [][RunsJob("send") /\ activeRequest # 0 =>
          readyState[Head(microtasks).s] = "OPEN"]_vars
  /\ [][\A s \in SockIds : readyState[s] = "CLOSING" /\ readyState'[s] = "CLOSED" =>
          settleCount' = settleCount]_vars

\* C9: the continuation left over from a failed connect attempt clears only
\* its own connect promise and rejects only its own request.
C9_FailedAttemptIsLocal ==
  /\ [][RunsJob("connected") /\ Head(microtasks).e # "none" =>
          connectPromise \in {0, Head(microtasks).s}]_vars
  /\ [][RunsJob("catch") /\ Head(microtasks).e = "connection failed" =>
          \A r \in ReqIds : Settles(r) => r = Head(microtasks).r]_vars

\* the dispatch of the active request fails because its connect attempt
\* failed: its catch runs, or the error listener of the failed socket runs
\* while its continuation is still waiting with the rejection
ConnectFailureReaches(r) ==
  /\ activeRequest = r
  /\ \/ /\ RunsJob("catch")
        /\ Head(microtasks).r = r
        /\ Head(microtasks).e = "connection failed"
     \/ /\ listeners # <<>>
        /\ Head(listeners).t = "error"
        /\ Listener
        /\ \E i \in 1..Len(microtasks) :
             /\ microtasks[i].r = r
             /\ microtasks[i].s = Head(listeners).s
             /\ microtasks[i].e = "connection failed"

\* C10: when the dispatch of the active request r fails because the
\* connection cannot be established, r is rejected, the head of the queue,
\* if any, takes the slot and a new socket is created for it; a settled
\* request is never queued, active or dispatched again.
C10_ConnectFailureAdvances ==
  /\ [][\A r \in ReqIds : ConnectFailureReaches(r) =>
          /\ Settles(r)
          /\ lastSettle'.id = r
          /\ lastSettle'.result \in {"connection failed", "websocket error"}
          /\ queuedRequests # <<>> =>
               /\ activeRequest' = Head(queuedRequests).id
               /\ socketCount' = socketCount + 1
               /\ connectPromise' = socketCount'
               /\ readyState'[socketCount'] = "CONNECTING"]_vars
  /\ [](\A r \in ReqIds : Settled(r) => r \notin QueuedIds /\ activeRequest # r)
  /\ [][\A r \in ReqIds : Settled(r) => ~SendsCreate(r)]_vars

\* a connect failure has rejected a request and the next one has the slot
\* and a socket of its own that is connecting
C10_Witness ==
  /\ lastSettle.result \in {"connection failed", "websocket error"}
  /\ activeRequest = lastSettle.id + 1
  /\ connectPromise = socketCount
  /\ socketCount >= 2
  /\ readyState[socketCount] = "CONNECTING"
  /\ readyState[socketCount - 1] = "CLOSED"
  /\ promiseState[socketCount - 1] = "rejected"

\* the step runs the close listener of a socket
RunsCloseListener ==
  \/ \E s \in SockIds : SocketClose(s)
  \/ listeners # <<>> /\ Head(listeners).t = "close" /\ Listener

\* C11: whenever the queue is non-empty the slot is occupied (in every state,
\* so in every quiescent one): every step that settles a request while
\* others are queued puts the head of the queue into the slot, and a request
\* submitted while the slot is free takes it at once.
C11_SlotNeverIdle ==
  /\ [](queuedRequests # <<>> => activeRequest # 0)
  /\ [][\A r \in ReqIds : Settles(r) /\ queuedRequests # <<>> =>
          activeRequest' = Head(queuedRequests).id]_vars
  /\ [][submitted' = submitted + 1 /\ activeRequest = 0 =>
          activeRequest' = submitted']_vars

\* a request has settled, the next one has the slot and a third one waits
C11_Witness ==
  /\ Quiescent
  /\ queuedRequests # <<>>
  /\ lastSettle.id # 0
  /\ activeRequest = lastSettle.id + 1

\* C12: the close listener of a socket clears the cached connection (no
\* socket, not open) and the connect attempt, so that the dispatch of the
\* next request, if one is queued, creates a new socket in the same step; an
\* active request that has not received response.done is rejected with the
\* closed-before-completion error; with no active request only the
\* connection state changes.
C12_CloseResets ==
  [][RunsCloseListener =>
       /\ ws' = 0 /\ ~isWsOpen'
       /\ \/ connectPromise' = 0 /\ socketCount' = socketCount
          \/ /\ socketCount' = socketCount + 1
             /\ connectPromise' = socketCount'
             /\ readyState'[socketCount'] = "CONNECTING"
       /\ activeRequest # 0 /\ ~receivedDoneEvent =>
            /\ Settles(activeRequest)
            /\ lastSettle' = [id |-> activeRequest,
                              result |-> "closed before completion", who |-> 0]
       /\ activeRequest = 0 =>
            UNCHANGED <<activeRequest, queuedRequests, timers, settleCount,
                        lastSettle, createCount, socketCount, microtasks,
                        streamedText, streamedAudioChunks>>]_vars

\* a close has rejected the active request and cleared the connection
C12_Witness ==
  /\ lastSettle.result = "closed before completion"
  /\ ws = 0 /\ ~isWsOpen /\ connectPromise = 0
  /\ activeRequest = 0

\* C13: a socket carries one session.update, sent by its open event and by
\* no other step, and a response.create is sent only on a socket that has
\* carried its session.update.
C13_SessionUpdateOnce ==
  /\ [](\A s \in SockIds : sessionUpdates[s] <= 1)
  /\ [][\A s \in SockIds :
          /\ SocketOpen(s) => sessionUpdates[s] = 0 /\ sessionUpdates'[s] = 1
          /\ sessionUpdates'[s] # sessionUpdates[s] => SocketOpen(s)]_vars
  /\ [][RunsJob("send") /\ activeRequest # 0 =>
          sessionUpdates[Head(microtasks).s] = 1]_vars

\* two requests were sent on the one socket, which carried one session.update
C13_Witness ==
  /\ createCount[1] = 1 /\ createCount[2] = 1
  /\ socketCount = 1
  /\ sessionUpdates[1] = 1

\* C14: a request submitted while the slot is free and the socket whose
\* response.done resolved the latest request is still open is dispatched on
\* that socket, and no socket is created.
C14_ReusesConnection ==
  [][/\ Translate \/ GetAudio
     /\ activeRequest = 0
     /\ lastSettle.result \in {"text", "audio"}
     /\ lastDone.s # 0
     /\ readyState[lastDone.s] = "OPEN"
     => /\ socketCount' = socketCount
        /\ microtasks' = Append(microtasks, Job("send", submitted', lastDone.s, "none"))]_vars

\* the step delivers a response.done event of the given status to the
\* active request
DoneArrives(status) ==
  /\ activeRequest # 0
  /\ eventCount' = eventCount + 1
  /\ \E s \in SockIds : \E i \in 1..MaxRequests : \E ev \in ApiEvents :
       ev.type = "response.done" /\ ev.status = status /\ Message(s, i, ev)

\* C15: a response.done of status "incomplete" resolves the active request
\* with its audio when the request asks for audio and at least one audio
\* fragment is buffered, and rejects it with the status error otherwise (a
\* text request, or an audio request without fragments).
C15_IncompleteAudio ==
  [][DoneArrives("incomplete") =>
       /\ Settles(activeRequest)
       /\ lastSettle'.id = activeRequest
       /\ lastSettle'.result =
            IF modalities = "audio" /\ Len(streamedAudioChunks) > 0
            THEN "audio" ELSE "ended with status 'incomplete'"]_vars

\* an audio request has been resolved by an incomplete response
C15_Witness ==
  /\ lastDone.status = "incomplete"
  /\ lastSettle.result = "audio"

\* C16: a response.done whose status is not "completed", an absent status
\* included, rejects the active request with the status error, unless it is
\* the accepted incomplete audio response.
C16_OnlyCompletedSucceeds ==
  [][\A status \in {"incomplete", "failed", ""} :
       /\ DoneArrives(status)
       /\ ~(status = "incomplete" /\ modalities = "audio" /\ Len(streamedAudioChunks) > 0)
       => /\ Settles(activeRequest)
          /\ lastSettle'.result = StatusError(status)]_vars

\* the step delivers a response.output_text.done event to the active request
TextDoneArrives ==
  /\ activeRequest # 0
  /\ eventCount' = eventCount + 1
  /\ \E s \in SockIds : \E i \in 1..MaxRequests : \E ev \in ApiEvents :
       ev.type = "response.output_text.done" /\ Message(s, i, ev)

\* C17: a response.output_text.done event leaves the text buffer unchanged
\* once a delta has put text into it; its payload becomes the buffer only
\* when no delta has.
C17_DoneKeepsDeltas ==
  [][TextDoneArrives =>
       /\ deltaPopulated => streamedText' = streamedText
       /\ streamedText' # streamedText => ~deltaPopulated]_vars

\* the multiplexer and the connection: the queue, the slot and its buffers,
\* the timers, the sockets and what was sent on them
multiplexer ==
  <<queuedRequests, activeRequest, modalities, streamedText,
    streamedAudioChunks, receivedDoneEvent, timers, ws, isWsOpen,
    connectPromise, socketCount, readyState, promiseState, reactions,
    sessionUpdates, createCount, upstream, settleCount, lastSettle>>

\* the step may be a call of the API: no provider event is delivered, no
\* socket opens and no promise continuation runs
NoCallbackRuns ==
  /\ eventCount' = eventCount
  /\ sessionUpdates' = sessionUpdates
  /\ Len(microtasks') >= Len(microtasks)
  /\ SubSeq(microtasks', 1, Len(microtasks)) = microtasks

\* C18: getAudio called with a text or a target language that is empty
\* after trimming rejects and leaves the queue, the slot, the timers and
\* the connection as they are: nothing is queued, submitted or sent.
C18_BlankAudioInput ==
  [][NoCallbackRuns =>
       \A text \in AudioInputs : \A targetLanguage \in AudioInputs :
         /\ Trim(text) = <<>> \/ Trim(targetLanguage) = <<>>
         /\ GetAudioWith(text, targetLanguage)
         => /\ UNCHANGED <<multiplexer, submitted, microtasks, callers>>
            /\ returned'.threw
            /\ returned'.id = 0]_vars

\* a blank getAudio call was rejected while one request had the slot and
\* another one waited
C18_Witness ==
  /\ returned.threw /\ returned.id = 0
  /\ activeRequest # 0
  /\ queuedRequests # <<>>

\* C19: when getDefinitions resumes with the provider's text it fails or
\* returns exactly one definition, of the requested word and not empty.
C19_OneDefinition ==
  [][RunsJob("caller") /\ Head(microtasks).caller.api = "getDefinitions" =>
       \/ returned'.threw
       \/ /\ Len(returned'.definitions) = 1
          /\ returned'.definitions[1].word = Head(microtasks).caller.word
          /\ returned'.definitions[1].definition # <<>>]_vars

\* the text is not JSON: it holds a character that starts no JSON value
NotJson(text) == \E i \in 1..Len(text) : text[i] = "x"

\* the text is a JSON document without the field the API call needs
LacksField(api, text) ==
  \E doc \in JsonDocs :
    /\ Trim(text) = <<doc>>
    /\ doc \in IF api = "translate"
               THEN {"{}", "null", "{definition}", "{definitions:w}"}
               ELSE {"{}", "null", "[]", "[pair]", "{pairs}"}

\* C20: when translate or getDefinitions resumes with a text that is not
\* JSON, or that lacks the structured field, the call is rejected, with one
\* error for invalid JSON and another for the missing field; by then the
\* request has left the slot, and the step leaves the multiplexer, and so
\* the next request, as they are.
C20_MalformedRejects ==
  [][RunsJob("caller") =>
       LET job == Head(microtasks) IN
       /\ activeRequest # job.r /\ job.r \notin QueuedIds /\ Settled(job.r)
       /\ UNCHANGED <<multiplexer, submitted, callers>>
       /\ returned'.id = job.r
       /\ NotJson(job.text) =>
            /\ returned'.threw
            /\ returned'.value = IF job.caller.api = "translate"
                                 THEN "invalid structured JSON"
                                 ELSE "invalid structured definitions JSON"
       /\ LacksField(job.caller.api, job.text) =>
            /\ returned'.threw
            /\ returned'.value = IF job.caller.api = "translate"
                                 THEN "missing translation literal pairs"
                                 ELSE "missing 'definitions'"]_vars

\* translate was rejected for invalid JSON and the next request has been
\* sent to the provider
C20_Witness ==
  /\ returned.threw
  /\ returned.value = "invalid structured JSON"
  /\ activeRequest = returned.id + 1
  /\ createCount[activeRequest] = 1

----------------------------------------------------------------------------
\* Vocabulary of the properties of decodeBase64PcmChunksToWavBlob.

\* the 16-bit samples a buffer holds
SamplesOf(buffer) ==
  [i \in 1..(Len(buffer) \div 2) |-> readInt16LE(buffer, 2 * (i - 1))]

\* the PCM payload of a WAV file: what follows its header
PayloadOf(wav) == SubSeq(wav, headerSize + 1, Len(wav))

\* the samples of a WAV file
readWavSamples(wavBlob) == SamplesOf(PayloadOf(wavBlob.bytes))

\* the peak absolute amplitude of some samples, 0 for none
PeakOf(samples) ==
  CHOOSE m \in {0} \cup {Abs(samples[i]) : i \in 1..Len(samples)} :
    \A i \in 1..Len(samples) : Abs(samples[i]) <= m

\* the call has returned a WAV file for a non-empty list of fragments
Encoded == codec.returned /\ Len(codec.chunks) > 0

\* clamp(round(sample * gain), -32768, 32767) for
\* gain = max(1, min(1.8, 29490 / peak)), the product being the double the
\* code computes
Rewritten(sample, peak) ==
  IF 18 * peak <= 294900 THEN (18 * sample + 5) \div 10
  ELSE IF peak >= 29490 THEN sample
  ELSE RoundSafe(sample, peak)

\* C21: for quiet input (non-zero peak P with P * 1.8 <= 29490) every output
\* sample of decodeBase64PcmChunksToWavBlob is round(sample * 1.8); in
\* general every output sample is clamp(round(sample * gain), -32768, 32767)
\* with gain = max(1, min(1.8, 29490 / P)).
C21_QuietBoost ==
  Encoded =>
    /\ Len(readWavSamples(codec.blob)) = Len(SamplesOf(codec.pcm))
    /\ \A i \in 1..Len(SamplesOf(codec.pcm)) :
         /\ (/\ PeakOf(SamplesOf(codec.pcm)) # 0
             /\ 18 * PeakOf(SamplesOf(codec.pcm)) <= 294900)
              => readWavSamples(codec.blob)[i]
                   = (18 * SamplesOf(codec.pcm)[i] + 5) \div 10
         /\ PeakOf(SamplesOf(codec.pcm)) # 0
              => /\ readWavSamples(codec.blob)[i]
                      = Rewritten(SamplesOf(codec.pcm)[i], PeakOf(SamplesOf(codec.pcm)))
                 /\ readWavSamples(codec.blob)[i] \in -32768..32767

\* quiet samples have been boosted by 1.8
C21_Witness ==
  /\ codec.returned
  /\ codec.pcm = pcmOf(<<1000, -500>>)
  /\ readWavSamples(codec.blob) = <<1800, -900>>

\* C22 as stated: if the input peak P satisfies P * 1.8 >= 29490, the output
\* peak is round(P * 1.8) clamped to 32767.
C22_LoudPeakScaled ==
  (Encoded /\ 18 * PeakOf(SamplesOf(codec.pcm)) >= 294900) =>
    PeakOf(readWavSamples(codec.blob))
      = IF (18 * PeakOf(SamplesOf(codec.pcm)) + 5) \div 10 > 32767 THEN 32767
        ELSE (18 * PeakOf(SamplesOf(codec.pcm)) + 5) \div 10

\* C22: if the non-zero input peak P satisfies P * 1.8 <= 29490, the output
\* peak is round(P * 1.8); if P * 1.8 >= 29490, the output peak is 29490 for
\* P below 29490 and P from there on.
C22_PeakAfterBoost ==
  Encoded =>
    /\ (/\ PeakOf(SamplesOf(codec.pcm)) # 0
        /\ 18 * PeakOf(SamplesOf(codec.pcm)) <= 294900)
         => PeakOf(readWavSamples(codec.blob))
              = (18 * PeakOf(SamplesOf(codec.pcm)) + 5) \div 10
    /\ 18 * PeakOf(SamplesOf(codec.pcm)) >= 294900
         => PeakOf(readWavSamples(codec.blob))
              = IF PeakOf(SamplesOf(codec.pcm)) < 29490 THEN 29490
                ELSE PeakOf(SamplesOf(codec.pcm))

\* a peak of 20000 has been brought to 29490, and the other sample with it
C22_Witness ==
  /\ codec.returned
  /\ codec.pcm = pcmOf(<<-20000, 1000>>)
  /\ readWavSamples(codec.blob) = <<-29490, 1475>>

\* C23: if the input peak is at least 29490, or the input is pure silence,
\* the PCM payload of the WAV output is the concatenated decoded input, byte
\* for byte.
C23_LoudOrSilentUnchanged ==
  (/\ Encoded
   /\ \/ PeakOf(SamplesOf(codec.pcm)) >= 29490
      \/ PeakOf(SamplesOf(codec.pcm)) = 0)
    => PayloadOf(codec.blob.bytes) = codec.pcm

\* loud input that came in two fragments has been encoded
C23_Witness ==
  /\ codec.returned
  /\ Len(codec.chunks) = 2
  /\ codec.pcm = pcmOf(<<1000, 32000>>)
  /\ readWavSamples(codec.blob) = <<1000, 32000>>

\* C24: for every non-empty list of fragments the WAV output minus its
\* 44-byte header has as many samples as the concatenated decoded input, and
\* each output sample has the sign of the input sample and an absolute value
\* that is at least as large.
C24_OnlyBoosts ==
  Encoded =>
    /\ Len(codec.blob.bytes) >= 44
    /\ Len(SamplesOf(SubSeq(codec.blob.bytes, 45, Len(codec.blob.bytes))))
         = Len(SamplesOf(codec.pcm))
    /\ \A i \in 1..Len(SamplesOf(codec.pcm)) :
         /\ (readWavSamples(codec.blob)[i] > 0) = (SamplesOf(codec.pcm)[i] > 0)
         /\ (readWavSamples(codec.blob)[i] < 0) = (SamplesOf(codec.pcm)[i] < 0)
         /\ Abs(readWavSamples(codec.blob)[i]) >= Abs(SamplesOf(codec.pcm)[i])

\* a buffer of two samples and half a sample, cut inside a sample, has been
\* boosted
C24_Witness ==
  /\ codec.returned
  /\ codec.pcm = pcmOf(<<-1, 278>>) \o <<7>>
  /\ codec.chunks = <<toBase64(SubSeq(codec.pcm, 1, 1)), toBase64(SubSeq(codec.pcm, 2, 5))>>
  /\ readWavSamples(codec.blob) = <<-2, 500>>

\* C25: for an empty list of fragments decodeBase64PcmChunksToWavBlob
\* returns an audio/wav result of length zero, without a header.
C25_EmptyList ==
  (codec.returned /\ Len(codec.chunks) = 0) =>
    codec.blob = Blob(<<>>, "audio/wav")

\* the call with no fragments has returned
C25_Witness == codec.returned /\ codec.chunks = <<>> /\ codec.blob.type = "audio/wav"

----------------------------------------------------------------------------
\* C26 as stated: in every state in which the slot is occupied, the
\* connection is in the open state.
C26_ActiveOnlyWhenOpen ==
  activeRequest # 0 => (ws # 0 /\ isWsOpen /\ readyState[ws] = "OPEN")

\* C26: an ActiveRequest is created, with its timeout armed, as soon as a
\* request is taken from the queue, whether or not the connection is ready:
\* in every state the armed timeouts are that of the request in the slot and
\* no other.
C26_ActiveHasItsTimeout ==
  timers = IF activeRequest = 0 THEN {} ELSE {activeRequest}

\* the slot is occupied and its timeout armed while the socket is connecting
C26_Witness ==
  /\ activeRequest # 0
  /\ activeRequest \in timers
  /\ connectPromise # 0
  /\ readyState[connectPromise] = "CONNECTING"
  /\ ~isWsOpen

----------------------------------------------------------------------------
\* C27: a completed audio request whose accumulated audio is empty (no
\* fragment, or fragments that decode to no PCM byte) is rejected with the
\* empty-output error and never resolved with audio that holds no sample.
C27_EmptyAudioRejected ==
  [][(/\ DoneArrives("completed")
      /\ modalities = "audio"
      /\ PcmBytes(streamedAudioChunks) = 0)
       => /\ Settles(activeRequest)
          /\ lastSettle'.id = activeRequest
          /\ lastSettle'.result = "empty audio"]_vars

----------------------------------------------------------------------------
\* the step delivers a response.done of status completed, with this inline
\* output text, to the active request
CompletedDoneArrives(output) ==
  /\ activeRequest # 0
  /\ eventCount' = eventCount + 1
  /\ \E s \in SockIds : \E i \in 1..MaxRequests :
       Message(s, i, Event("response.done", FALSE, <<>>, "completed", output))

\* the inline output texts of the response.done events
Outputs == {ev.output : ev \in {e \in ApiEvents : e.type = "response.done"}}

\* the text a completed request has accumulated: its text buffer or, when
\* that is blank, the inline output text of the response.done event
Accumulated(buffer, output) ==
  IF Trim(buffer) # <<>> THEN Trim(buffer) ELSE Trim(output)

\* the promise continuations that resume runOpenAiRealtimeRequest with a text
ResolvedTexts(jobs) ==
  {<<jobs[j].r, jobs[j].text>> : j \in {k \in 1..Len(jobs) : jobs[k].t = "resolved"}}

\* C28: a completed text-only request resolves with its trimmed accumulated
\* text when that is not empty and is rejected with the empty-output error
\* otherwise; no request is ever resolved with an empty string.
C28_TextOrEmptyError ==
  /\ [][\A output \in Outputs :
          (CompletedDoneArrives(output) /\ modalities = "text") =>
            /\ Settles(activeRequest)
            /\ lastSettle'.id = activeRequest
            /\ IF Accumulated(streamedText, output) # <<>>
               THEN /\ lastSettle'.result = "text"
                    /\ ResolvedTexts(microtasks')
                         = {<<activeRequest, Accumulated(streamedText, output)>>}
               ELSE /\ lastSettle'.result = "empty text"
                    /\ ResolvedTexts(microtasks') = {}]_vars
  /\ [](\A resolved \in ResolvedTexts(microtasks) : resolved[2] # <<>>)

\* a text request has been resolved with the inline output text of its
\* response.done event, no text having been streamed
C28_Witness ==
  /\ lastDone.status = "completed"
  /\ lastSettle.result = "text"
  /\ \E r \in ReqIds : ResolvedTexts(microtasks) = {<<r, <<"[pair]">>>>}

Arrives(ev) ==
  /\ activeRequest # 0
  /\ eventCount' = eventCount + 1
  /\ \E s \in SockIds : \E i \in 1..MaxRequests : Message(s, i, ev)

\* the text deltas and the audio deltas the provider sends
Deltas ==
  {ev \in ApiEvents :
     /\ ev.isString
     /\ ev.type \in {"response.output_text.delta", "response.audio.delta",
                      "response.output_audio.delta"}}

KnownTypes ==
  {"error", "response.output_text.delta", "response.output_text.done",
   "response.audio.delta", "response.output_audio.delta", "response.done"}

\* what the translator holds: the queue, the slot and its buffers, the
\* timers, the connection, what was sent, the settle callbacks invoked and
\* the promise continuations
translator ==
  <<queuedRequests, activeRequest, modalities, streamedText,
    streamedAudioChunks, receivedDoneEvent, timers, ws, isWsOpen,
    connectPromise, socketCount, readyState, promiseState, reactions,
    sessionUpdates, createCount, settleCount, lastSettle, microtasks,
    listeners, callers, returned>>

\* C30: a message that arrives while the slot is empty, or that does not
\* parse as JSON, or whose type is not a known event type, changes nothing:
\* queue, slot, buffers, timers and connection stay as they are and no
\* callback is invoked.
C30_IgnoredMessage ==
  [][eventCount' = eventCount + 1 =>
       \A s \in SockIds : \A i \in 1..MaxRequests : \A ev \in ApiEvents :
         (/\ \/ activeRequest = 0
             \/ ev.type = ""
             \/ ev.type \notin KnownTypes
          /\ Message(s, i, ev))
           => UNCHANGED translator]_vars

\* the only request was rejected by an error event and the response.done
\* that followed found the slot empty
C30_Witness ==
  /\ eventCount = 2
  /\ submitted = 1
  /\ activeRequest = 0
  /\ lastSettle.result = "upstream error"
  /\ createCount[1] = 1
  /\ \A s \in SockIds : upstream[s] = <<>>

----------------------------------------------------------------------------
\* the unsigned number the bytes at offset .. offset + width - 1 of a file
\* hold in little-endian order, offset counted from 0
UIntAt(bytes, offset, width) ==
  IF width = 2 THEN bytes[offset + 1] + 256 * bytes[offset + 2]
  ELSE bytes[offset + 1] + 256 * bytes[offset + 2] + 65536 * bytes[offset + 3]
         + 16777216 * bytes[offset + 4]

\* C31: for a non-empty list of fragments the WAV output is a 44-byte header
\* followed by the PCM payload: RIFF size 36 + dataSize, format code 1, one
\* channel, sample rate 24000, byte rate 48000, block align 2, 16 bits per
\* sample, data size the PCM byte length, total length 44 + PCM byte length.
C31_WavHeader ==
  Encoded =>
    /\ Len(codec.blob.bytes) = 44 + Len(codec.pcm)
    /\ SubSeq(codec.blob.bytes, 1, 4) = <<82, 73, 70, 70>>
    /\ UIntAt(codec.blob.bytes, 4, 4) = 36 + Len(codec.pcm)
    /\ SubSeq(codec.blob.bytes, 9, 16) = <<87, 65, 86, 69, 102, 109, 116, 32>>
    /\ UIntAt(codec.blob.bytes, 16, 4) = 16
    /\ UIntAt(codec.blob.bytes, 20, 2) = 1
    /\ UIntAt(codec.blob.bytes, 22, 2) = 1
    /\ UIntAt(codec.blob.bytes, 24, 4) = 24000
    /\ UIntAt(codec.blob.bytes, 28, 4) = 48000
    /\ UIntAt(codec.blob.bytes, 32, 2) = 2
    /\ UIntAt(codec.blob.bytes, 34, 2) = 16
    /\ SubSeq(codec.blob.bytes, 37, 40) = <<100, 97, 116, 97>>
    /\ UIntAt(codec.blob.bytes, 40, 4) = Len(codec.pcm)
    /\ SubSeq(codec.blob.bytes, 45, Len(codec.blob.bytes))
         = boostPcm16Volume(codec.pcm)
    /\ \A i \in 1..Len(codec.blob.bytes) : codec.blob.bytes[i] \in 0..255

\* a file of five PCM bytes has been written
C31_Witness ==
  /\ codec.returned
  /\ Len(codec.pcm) = 5
  /\ Len(codec.blob.bytes) = 49
  /\ UIntAt(codec.blob.bytes, 4, 4) = 41

\* C36: boosting never clips: when a gain above 1 is applied (the peak is
\* neither 0 nor 29490 or more) every output sample lies in -29490..29490,
\* the clamp changes no value, and the output peak is round(peak * gain),
\* at most 29490.
C36_NeverClips ==
  (/\ Encoded
   /\ PeakOf(SamplesOf(codec.pcm)) > 0
   /\ PeakOf(SamplesOf(codec.pcm)) < 29490)
    => /\ \A i \in 1..Len(SamplesOf(codec.pcm)) :
            /\ readWavSamples(codec.blob)[i] \in -29490..29490
            /\ boostedSample(SamplesOf(codec.pcm)[i], PeakOf(SamplesOf(codec.pcm)))
                 = readWavSamples(codec.blob)[i]
       /\ PeakOf(readWavSamples(codec.blob))
            = Rewritten(PeakOf(SamplesOf(codec.pcm)), PeakOf(SamplesOf(codec.pcm)))
       /\ PeakOf(readWavSamples(codec.blob)) <= 29490

\* a peak of 16384, the first beyond the full boost, has been brought to
\* 29490 and the sample next to it to 29488
C36_Witness ==
  /\ codec.returned
  /\ codec.pcm = pcmOf(<<16383, -16384>>)
  /\ readWavSamples(codec.blob) = <<29488, -29490>>

\* C35: in every state a timeout is armed exactly when the slot is occupied,
\* at most one timeout is armed, and it is the one of the request in the
\* slot; so a timeout callback that runs rejects the request it was armed
\* for, with the timeout error.
C35_TimeoutHitsItsRequest ==
  /\ [](/\ Cardinality(timers) <= 1
        /\ timers # {} <=> activeRequest # 0
        /\ \A r \in timers : r = activeRequest)
  /\ [][\A r \in ReqIds : Timeout(r) =>
          /\ activeRequest = r
          /\ Settles(r)
          /\ lastSettle' = [id |-> r, result |-> "timeout", who |-> r]
          /\ r \notin timers']_vars

\* the timeout of the second request has run while the third one waited:
\* the second was rejected by its own timeout and the third has the slot
\* with its own timeout armed
C35_Witness ==
  /\ lastSettle = [id |-> 2, result |-> "timeout", who |-> 2]
  /\ activeRequest = 3
  /\ timers = {3}

\* C33: an event that was not emitted in response to the active request's own
\* response.create (it belongs to the response of another request, or it
\* arrives on a socket that is not the current connection) is neither
\* accumulated into the active request's buffers nor used to settle it.
C33_OwnEventsOnly ==
  [][\A s \in SockIds : \A i \in 1..MaxRequests : \A ev \in MuxEvents :
       /\ eventCount' = eventCount + 1
       /\ activeRequest # 0
       /\ Message(s, i, ev)
       /\ s # ws \/ upstream[s][i] # activeRequest
       => UNCHANGED <<streamedText, streamedAudioChunks, settleCount>>]_vars

\* the socket a dispatch would use: the one being connected, else the cached one
CurrentConnection == IF connectPromise # 0 THEN connectPromise ELSE ws

\* the step runs the close listener of socket s
ClosesOn(s) ==
  \/ SocketClose(s)
  \/ listeners # <<>> /\ Head(listeners) = Job("close", 0, s, "none") /\ Listener

\* C34: the close event of a socket that is no longer the current connection
\* rejects no request and leaves the cached state of the current connection
\* (the socket, its open flag, the connect attempt) as it is.
C34_StaleCloseHarmless ==
  [][\A s \in SockIds :
       /\ CurrentConnection # 0
       /\ CurrentConnection # s
       /\ ClosesOn(s)
       => /\ UNCHANGED <<connectPromise, settleCount>>
          /\ ws # s => UNCHANGED <<ws, isWsOpen>>]_vars

\* C32: a websocket message that parses as a request gets no response while
\* the translator's promise is pending and exactly one once it has settled:
\* the success message of its type when the promise resolved, translate.error
\* when it rejected, carrying the requestId the message had.
C32_OneResponseSameId ==
  \A k \in 1..Len(server.calls) :
    /\ server.calls[k].promise = "pending" => server.calls[k].responses = <<>>
    /\ server.calls[k].promise # "pending" =>
         /\ Len(server.calls[k].responses) = 1
         /\ server.calls[k].responses[1].type =
              IF server.calls[k].promise = "resolved"
              THEN successType(server.calls[k].request.type)
              ELSE "translate.error"
         /\ server.calls[k].responses[1].requestId = Str(server.calls[k].sentId)

\* the distinct words of a list, each at the place of its latest occurrence
RECURSIVE LatestDistinct(_)
LatestDistinct(words) ==
  IF words = <<>>
  THEN <<>>
  ELSE IF \E i \in 2..Len(words) : words[i] = Head(words)
  THEN LatestDistinct(Tail(words))
  ELSE <<Head(words)>> \o LatestDistinct(Tail(words))

\* the last n elements of a list
Last(list, n) == SubSeq(list, Len(list) - n + 1, Len(list))

\* C39: after any calls of writeDefinitionsToCache and clear the cache holds
\* at most maxItems entries, its keys are the words of the order list, which
\* has no duplicate, and the order list is the most recently written distinct
\* words since the latest clear, oldest first.
C39_CacheKeepsNewest ==
  /\ Len(definitionCache.cache) <= maxItems
  /\ Keys(definitionCache.cache) =
       {definitionCache.cacheOrder[i] : i \in 1..Len(definitionCache.cacheOrder)}
  /\ Cardinality(Keys(definitionCache.cache)) = Len(definitionCache.cacheOrder)
  /\ Cardinality(Keys(definitionCache.cache)) = Len(definitionCache.cache)
  /\ definitionCache.cacheOrder =
       IF Len(LatestDistinct(definitionCache.written)) <= maxItems
       THEN LatestDistinct(definitionCache.written)
       ELSE Last(LatestDistinct(definitionCache.written), maxItems)

\* a, b, a, c were written: b, the oldest, was evicted and a, rewritten,
\* was kept
C39_Witness ==
  /\ definitionCache.written = <<<<"a">>, <<"b">>, <<"a">>, <<"c">>>>
  /\ definitionCache.cacheOrder = <<<<"a">>, <<"c">>>>
  /\ Keys(definitionCache.cache) = {<<"a">>, <<"c">>}

\* the sockets of the client that are connecting or open
LiveClientSockets ==
  {s \in SocketIds : client.readyState[s] \in {"CONNECTING", "OPEN"}}

\* the request state clearAllRequestState clears
requestState ==
  <<client.latestRequest, client.currentNormalizedInputText,
    client.lastRequestedSignature, client.latestDefinitionsRequestId,
    client.lastDefinitionRequestSignature, client.latestAudioRequestId>>

\* C37: the close event of a socket that is not the client's current socket
\* clears no request state and sets no reconnect timer; the client has at
\* most one live socket and at most one pending reconnect timer; and while
\* the client stays disposed no socket is created and no timer is set.
C37_StaleCloseIgnored ==
  /\ [][\A s \in SocketIds :
          ClientSocketClose(s) /\ client.socket # s =>
            /\ requestState' = requestState
            /\ client'.timers \subseteq client.timers]_vars
  /\ [](Cardinality(LiveClientSockets) <= 1)
  /\ [](Cardinality(client.timers) <= 1)
  /\ [][client.isDisposed /\ client'.isDisposed =>
          /\ client'.socketCount = client.socketCount
          /\ client'.timers \subseteq client.timers]_vars

\* the step invokes the callback
Invokes(callback) ==
  \E i \in 1..Len(client'.called) : client'.called[i] = callback

\* C38: onTranslateSuccess is invoked only by the delivery of a
\* translate.success message on the current socket whose requestId is the id
\* of the translate request sent last, while that request has not been
\* cleared and the current normalized input text is the normalized text of
\* that request.
C38_OnlyLatestTranslateSucceeds ==
  /\ [][Invokes("onTranslateSuccess") =>
          \E s \in SocketIds : \E request \in client.sent[s] :
            /\ request.type = "translate.request"
            /\ ClientResponse(s, request, "resolved")]_vars
  /\ [][\A s \in SocketIds : \A request \in client.sent[s] :
          /\ Invokes("onTranslateSuccess")
          /\ ClientResponse(s, request, "resolved")
          => /\ s = client.socket
             /\ request.requestId = client.lastTranslate.id
             /\ ~client.lastTranslate.cleared
             /\ client.currentNormalizedInputText =
                  client.lastTranslate.normalizedInputText]_vars

\* the response to the second translate request, sent after the first was
\* cleared, has been delivered and accepted
C38_Witness ==
  /\ \E i \in 1..Len(client.called) : client.called[i] = "onTranslateSuccess"
  /\ client.lastTranslate.id = 2
  /\ client.latestRequest.id = 2
  /\ client.currentNormalizedInputText = <<"h", " ", "i">>

====
